---- MODULE Spec2Model ----
(***************************************************************************)
(* Model of the raylib "separate threads" sample:                          *)
(*   - RenderCmdQueue (include/RenderCmdQueue.h): a growable byte buffer   *)
(*     of type-erased records with out-of-band (OOB) regions;              *)
(*   - RenderQueue (include/RenderQueue.h, src/RenderQueue.cpp): two       *)
(*     QueueSets with swappable LogicSet / RenderSet roles;                *)
(*   - FrameThread / FrameThreadControl (include/FrameThread.h) and main   *)
(*     (the sample's main file): the two-barrier frame pipeline.           *)
(*                                                                         *)
(* The buffer is modelled byte by byte.  Data is a sequence of cells, one  *)
(* per byte; the byte at offset p is Data[p + 1].  Multi-byte fields live  *)
(* in the cell of their first byte, the other bytes of the field are "P".  *)
(***************************************************************************)
EXTENDS Integers, Sequences, FiniteSets, TLC

\* ------------------------------------------------------------------------
\* Bounds of the model
\* ------------------------------------------------------------------------
MaxOps == 5
MaxFrames == 3
MaxCubes == 1
MaxDraw == 2
MaxLooseFrames == 1
MaxObjects == 3
MaxGets == 2
ClockStart == 10
\* the template argument MaxSamples of the FPSCalculator followed (default 30)
MaxSamples == 3
\* Tick calls followed on one FPSCalculator
MaxTicks == 7
\* Push calls followed on the queue two workers share
MaxRacePushes == 3

\* ------------------------------------------------------------------------
\* Program constants
\* ------------------------------------------------------------------------
InvalidValue == 0 - 1
SizeofSizeT == 8
Uint8Mod == 256
SizeOffset == 8
PayloadOffset == 12
NUM_THREADS == 3

\* ------------------------------------------------------------------------
\* SizeType (uint32_t) arithmetic
\*
\* A uint32_t is kept as the 32-bit integer with the same bit pattern: v for
\* v < 2^31 and v - 2^32 above.  InvalidValue (0xFFFFFFFF) is therefore -1.
\* ------------------------------------------------------------------------
MaxInt32 == 2147483647
MinInt32 == (0 - MaxInt32) - 1

\*
\* An operator that uses an argument more than once takes it through a function
\* application ([x \in Int |-> ...][a]), so that the argument is evaluated once.
\* a + b modulo 2^32
U32Add(a, b) ==
    [x \in Int, y \in Int |->
        IF x >= 0 /\ y >= 0 /\ x > MaxInt32 - y
        THEN ((x - MaxInt32) - 1) + ((y - MaxInt32) - 1)
        ELSE IF x < 0 /\ y < 0 /\ x < MinInt32 - y
        THEN ((x + MaxInt32) + 1) + ((y + MaxInt32) + 1)
        ELSE x + y][a, b]

U32Neg(b) == [y \in Int |-> IF y = MinInt32 THEN MinInt32 ELSE 0 - y][b]

\* a - b modulo 2^32
U32Sub(a, b) == U32Add(a, U32Neg(b))

\* unsigned a < b
U32Lt(a, b) ==
    [x \in Int, y \in Int |-> IF (x >= 0) = (y >= 0) THEN x < y ELSE y < 0][a, b]

U32Le(a, b) == [x \in Int, y \in Int |-> x = y \/ U32Lt(x, y)][a, b]

\* unsigned a / b, for 0 < b < 2^31
U32Div(a, b) ==
    [x \in Int, y \in Int |->
        IF x >= 0 THEN x \div y
        ELSE LET h == (x + MaxInt32) + 1
             IN (h \div y) + (MaxInt32 \div y)
                + (((h % y) + (MaxInt32 % y) + 1) \div y)][a, b]

RECURSIVE U32Mul(_, _)
\* a * b modulo 2^32, for 0 <= b < 2^31
U32Mul(a, b) ==
    [x \in Int, y \in Int |->
        IF y = 0 THEN 0
        ELSE IF y % 2 = 1 THEN U32Add(x, U32Mul(U32Add(x, x), y \div 2))
        ELSE U32Mul(U32Add(x, x), y \div 2)][a, b]

RECURSIVE Pow2(_)
\* 2^e as a uint32_t, for e <= 31
Pow2(e) ==
    [x \in Int |-> IF x = 0 THEN 1 ELSE IF x = 31 THEN MinInt32 ELSE 2 * Pow2(x - 1)][e]

\* ------------------------------------------------------------------------
\* Cells (bytes) of the buffer
\* ------------------------------------------------------------------------
\* a byte malloc returned and nobody wrote
Uninit == [k |-> "U", Size |-> 0, op |-> "none", id |-> 0, ref |-> 0, len |-> 0]
\* a plain data byte of value b
ByteCell(b) == [k |-> "B", Size |-> 0, op |-> "none", id |-> b, ref |-> 0, len |-> 0]
\* a byte that continues a multi-byte field
Pad == [k |-> "P", Size |-> 0, op |-> "none", id |-> 0, ref |-> 0, len |-> 0]
\* first byte of a Wrapper<T>: the vtable pointer, which selects Call
VptrCell(op) == [k |-> "V", Size |-> 0, op |-> op, id |-> 0, ref |-> 0, len |-> 0]
\* first byte of Base::Size
SizeCell(s) == [k |-> "S", Size |-> s, op |-> "none", id |-> 0, ref |-> 0, len |-> 0]
\* first byte of Wrapper<T>::Payload: the captured values of the lambda
PayloadCell(id, ref, len) == [k |-> "C", Size |-> 0, op |-> "none", id |-> id, ref |-> ref, len |-> len]

Min(a, b) == IF a < b THEN a ELSE b
Max(a, b) == IF a > b THEN a ELSE b

\* ------------------------------------------------------------------------
\* namespace details
\* ------------------------------------------------------------------------
RECURSIVE NextPow2Exp(_, _)
\* the loop of NextPow2 on result = 2^e; size_t is 64 bits wide, so for a
\* 32-bit n the loop ends at the latest with result = 2^32 (e = 32)
NextPow2Exp(e, n) ==
    [x \in Int, y \in Int |->
        IF x <= 31 /\ U32Le(Pow2(x), y) THEN NextPow2Exp(x + 1, y) ELSE x][e, n]

\* NextPow2(n) converted to SizeType: 2^32 becomes 0
NextPow2(n) == [x \in Int |-> IF x = 32 THEN 0 ELSE Pow2(x)][NextPow2Exp(0, n)]

RECURSIVE HasTwoBits(_)
\* n & (n - 1) is non-zero exactly when n has more than one bit set
HasTwoBits(n) ==
    [x \in Int |-> IF x < 0 THEN x # MinInt32
                   ELSE IF x <= 1 THEN FALSE
                   ELSE IF x % 2 = 1 THEN TRUE
                   ELSE HasTwoBits(x \div 2)][n]

\* RoundPow2(n) converted to SizeType
RoundPow2(n) == [x \in Int |-> IF x = 0 \/ HasTwoBits(x) THEN NextPow2(x) ELSE x][n]

\* RoundUpToMultipleOf<SizeType>(a, b)
RoundUpToMultipleOf(a, b) ==
    [x \in Int, y \in Int |->
        IF y = 0 THEN x
        ELSE U32Mul(U32Div(U32Sub(U32Add(x, y), 1), y), y)][a, b]

\* ------------------------------------------------------------------------
\* RenderCmdQueue
\* ------------------------------------------------------------------------
\* RenderCmdQueue(capacity): malloc(capacity), nothing used
NewQueue(capacity) ==
    [Data |-> [i \in 1..capacity |-> Uninit],
     Capacity |-> capacity, UsedCapacity |-> 0, NumElements |-> 0,
     First |-> InvalidValue, Last |-> InvalidValue]

IsSet(pos) == pos # InvalidValue

GetFreeCapacity(q) == U32Sub(q.Capacity, q.UsedCapacity)

\* memcpy / placement new of cells at byte offset pos; bytes that fall outside
\* the allocation are not part of Data (see Overruns)
\* (a names the three arguments, each evaluated once)
WriteCells(data, pos, cells) ==
    CHOOSE w \in { [i \in 1..Len(a.data) |->
                       IF i > a.pos /\ i <= a.pos + Len(a.cells)
                       THEN a.cells[i - a.pos] ELSE a.data[i]] :
                   a \in { [data |-> data, pos |-> pos, cells |-> cells] } } : TRUE

\* the write of n bytes at offset pos leaves the allocation of q
Overruns(q, pos, n) ==
    /\ n > 0
    /\ \/ U32Lt(U32Add(pos, n), pos)
       \/ U32Lt(q.Capacity, U32Add(pos, n))

GrowCapacity(used, requiredFreeCapacity) ==
    RoundPow2(U32Add(used, requiredFreeCapacity))

\* Grow that copies one byte too few
GrowCopyShort(q, requiredFreeCapacity) ==
    CHOOSE g \in { [a.q EXCEPT !.Data = [i \in 1..a.newCapacity |->
                                            IF i < a.q.UsedCapacity /\ i <= Len(a.q.Data)
                                            THEN a.q.Data[i] ELSE Uninit],
                               !.Capacity = a.newCapacity] :
                   a \in { [q |-> q,
                            newCapacity |-> GrowCapacity(q.UsedCapacity,
                                                         requiredFreeCapacity)] } } : TRUE

\* realloc to newCapacity: the first UsedCapacity bytes are copied, the rest is
\* whatever the allocator returns (a names q and newCapacity, evaluated once)
Grow(q, requiredFreeCapacity) ==
    CHOOSE g \in { [a.q EXCEPT !.Data = [i \in 1..a.newCapacity |->
                                            IF i <= a.q.UsedCapacity /\ i <= Len(a.q.Data)
                                            THEN a.q.Data[i] ELSE Uninit],
                               !.Capacity = a.newCapacity] :
                   a \in { [q |-> q,
                            newCapacity |-> GrowCapacity(q.UsedCapacity,
                                                         requiredFreeCapacity)] } } : TRUE

\* Grow(requiredFreeCapacity) would memcpy UsedCapacity bytes into a new block
\* that is smaller than that
GrowLosesBytes(q, requiredFreeCapacity) ==
    U32Lt(GrowCapacity(q.UsedCapacity, requiredFreeCapacity), q.UsedCapacity)

\* the cells of a Wrapper<T> of sizeof needed: vptr, Size, Payload
WrapperCells(needed, op, id, ref, len) ==
    [i \in 1..needed |->
        IF i = 1 THEN VptrCell(op)
        ELSE IF i = SizeOffset + 1 THEN SizeCell(needed)
        ELSE IF i = PayloadOffset + 1 THEN PayloadCell(id, ref, len)
        ELSE Pad]

\* a push that reallocates every time
NeedsGrowAlways(q, needed) == TRUE

\* if (GetFreeCapacity() < needed)
NeedsGrow(q, needed) == U32Lt(GetFreeCapacity(q), needed)

\* Push that moves First to every new record
PushAlwaysFirst(q, needed, op, id, ref, len) ==
    CHOOSE r \in {
        [g EXCEPT !.Data = WriteCells(g.Data, g.UsedCapacity,
                                      WrapperCells(needed, op, id, ref, len)),
                  !.UsedCapacity = U32Add(g.UsedCapacity, needed),
                  !.NumElements = U32Add(g.NumElements, 1),
                  !.First = g.UsedCapacity,
                  !.Last = g.UsedCapacity] :
        g \in { IF NeedsGrow(q, needed) THEN Grow(q, needed) ELSE q } } : TRUE

\* g is the queue after the Grow, if any; offset is g.UsedCapacity
Push(q, needed, op, id, ref, len) ==
    CHOOSE r \in {
        [g EXCEPT !.Data = WriteCells(g.Data, g.UsedCapacity,
                                      WrapperCells(needed, op, id, ref, len)),
                  !.UsedCapacity = U32Add(g.UsedCapacity, needed),
                  !.NumElements = U32Add(g.NumElements, 1),
                  !.First = IF IsSet(g.First) THEN g.First ELSE g.UsedCapacity,
                  !.Last = g.UsedCapacity] :
        g \in { IF NeedsGrow(q, needed) THEN Grow(q, needed) ELSE q } } : TRUE

AlignedNeeded(count, sizeofT) ==
    RoundUpToMultipleOf(U32Mul(count, sizeofT), SizeofSizeT)

\* a reservation that leaves the last record's Size alone
AddToLastSizeNever(q, n) == q

\* a reservation counted twice in the record's Size
AddToLastSizeTwice(q, n) ==
    IF IsSet(q.Last) /\ q.Last + SizeOffset + 1 <= Len(q.Data)
    THEN [q EXCEPT !.Data[q.Last + SizeOffset + 1].Size = U32Add(U32Add(@, n), n)]
    ELSE q

\* a reservation added to the Size of the first record
AddToFirstSize(q, n) ==
    IF IsSet(q.First) /\ q.First + SizeOffset + 1 <= Len(q.Data)
    THEN [q EXCEPT !.Data[q.First + SizeOffset + 1].Size = U32Add(@, n)]
    ELSE q

\* At(Last).Size += n
AddToLastSize(q, n) ==
    IF IsSet(q.Last) /\ q.Last + SizeOffset + 1 <= Len(q.Data)
    THEN [q EXCEPT !.Data[q.Last + SizeOffset + 1].Size = U32Add(@, n)]
    ELSE q

\* the queue after OobPushEmpty<T>(count); the Ref it returns is OobRef
OobPushEmpty(q, count, sizeofT) ==
    CHOOSE t \in {
        AddToLastSize(r, AlignedNeeded(count, sizeofT)) :
        r \in { [g EXCEPT !.UsedCapacity = U32Add(g.UsedCapacity,
                                                  AlignedNeeded(count, sizeofT))] :
                g \in { IF NeedsGrow(q, AlignedNeeded(count, sizeofT))
                        THEN Grow(q, AlignedNeeded(count, sizeofT)) ELSE q } } } : TRUE

OobRef(q, count, sizeofT) == q.UsedCapacity

\* OobPush<uint8_t>(data, count): reserve, then memcpy at the Ref
OobPush(q, bytes) ==
    CHOOSE t \in {
        [r EXCEPT !.Data = WriteCells(r.Data, OobRef(q, Len(bytes), 1), bytes)] :
        r \in { OobPushEmpty(q, Len(bytes), 1) } } : TRUE

\* a bounds check that compares the positions as signed numbers
OobAtOkSigned(q, ref) == ref < q.UsedCapacity

\* assert(ref.Pos < UsedCapacity)
OobAtOk(q, ref) == U32Lt(ref, q.UsedCapacity)

\* the bytes a reader gets at Data + ref for n bytes (clipped at the allocation)
ReadCells(q, ref, n) ==
    IF ref < 0 \/ ref >= Len(q.Data) \/ n = 0 THEN << >>
    ELSE SubSeq(q.Data, ref + 1,
                IF n < 0 THEN Len(q.Data) ELSE Min(ref + n, Len(q.Data)))

\* a record header can be read at offset pos
IsRecordAt(q, pos) ==
    /\ pos + PayloadOffset + 1 <= Len(q.Data)
    /\ q.Data[pos + 1].k = "V"
    /\ q.Data[pos + SizeOffset + 1].k = "S"
    /\ q.Data[pos + PayloadOffset + 1].k = "C"

Garbage == [op |-> "garbage", id |-> 0 - 1, got |-> << >>]

\* op->Call(q): what the stored lambda does, as one log entry
CallRecord(q, pos) ==
    LET v == q.Data[pos + 1]
        c == q.Data[pos + PayloadOffset + 1]
    IN IF v.op = "text"
       THEN [op |-> "text", id |-> c.id, got |-> ReadCells(q, c.ref, c.len + 1)]
       ELSE [op |-> v.op, id |-> c.id, got |-> << >>]

RECURSIVE CallFrom(_, _, _)
\* the loop of CallAll: todo records starting at offset pos
CallFrom(q, pos, todo) ==
    IF todo = 0 THEN << >>
    ELSE IF ~IsRecordAt(q, pos) THEN << Garbage >>
    ELSE << CallRecord(q, pos) >>
         \o CallFrom(q, pos + q.Data[pos + SizeOffset + 1].Size, todo - 1)

\* a CallAll that starts at the beginning of the buffer whatever First says
CallAllFromZero(q) == CallFrom(q, 0, q.NumElements)

CallAll(q) == CallFrom(q, IF IsSet(q.First) THEN q.First ELSE 0, q.NumElements)

RECURSIVE OffsetsFrom(_, _, _)
\* the offsets CallAll reads a record header at
OffsetsFrom(q, pos, todo) ==
    IF todo = 0 THEN {}
    ELSE IF ~IsRecordAt(q, pos) THEN {pos}
    ELSE {pos} \cup OffsetsFrom(q, pos + q.Data[pos + SizeOffset + 1].Size, todo - 1)

HeaderOffsets(q) == OffsetsFrom(q, IF IsSet(q.First) THEN q.First ELSE 0, q.NumElements)

\* Clear that forgets to reset NumElements
ClearKeepsCount(q) == [q EXCEPT !.UsedCapacity = 0,
                                !.First = InvalidValue, !.Last = InvalidValue]

Clear(q) == [q EXCEPT !.UsedCapacity = 0, !.NumElements = 0,
                      !.First = InvalidValue, !.Last = InvalidValue]


\* ------------------------------------------------------------------------
\* RenderQueue
\* ------------------------------------------------------------------------
\* RenderGroup
Domains == {"World", "UI"}

\* sizeof(Wrapper<T>) of the lambdas of DrawText, DrawRectangle, DrawCubeEx
\* (8 bytes vptr, 4 bytes Size, the captures, rounded up to 8)
SizeofTextCmd == 32
SizeofRectCmd == 32
SizeofCubeCmd == 64

\* a text of len characters, none of them zero
Text(len) == [i \in 1..len |-> ByteCell(((i + len) % 255) + 1)]

\* the count PushString hands to OobPushEmpty: static_cast<uint8_t>(size + 1)
PushStringCount(str) == (Len(str) + 1) % Uint8Mod

\* the Ref PushString returns
PushStringRef(qq, str) == OobRef(qq, PushStringCount(str), 1)

\* q.OobAt(ref) in PushString fails its assertion
PushStringAsserts(qq, str) ==
    ~OobAtOk(OobPushEmpty(qq, PushStringCount(str), 1), PushStringRef(qq, str))

\* the memcpy and the terminator of PushString leave the allocation
PushStringOverruns(qq, str) ==
    Overruns(OobPushEmpty(qq, PushStringCount(str), 1), PushStringRef(qq, str), Len(str) + 1)

\* the queue after PushString(q, str)
PushString(qq, str) ==
    CHOOSE t \in {
        [r EXCEPT !.Data = WriteCells(WriteCells(r.Data, PushStringRef(qq, str), str),
                                      PushStringRef(qq, str) + Len(str),
                                      << ByteCell(0) >>)] :
        r \in { OobPushEmpty(qq, PushStringCount(str), 1) } } : TRUE

\* RenderQueue::DrawText on queue qq: PushString first, then Push of the command
DrawText(qq, str, id) ==
    CHOOSE t \in {
        Push(s, SizeofTextCmd, "text", id, PushStringRef(qq, str), Len(str)) :
        s \in { PushString(qq, str) } } : TRUE

DrawRectangle(qq, id) == Push(qq, SizeofRectCmd, "rect", id, 0, 0)

DrawCubeEx(qq, id) == Push(qq, SizeofCubeCmd, "cube", id, 0, 0)

\* a swap that exchanges nothing
SwapQueuesNever(sets) == sets

\* a swap after which both roles name the same QueueSet
SwapQueuesAliases(sets) == [logic |-> sets.render, render |-> sets.render]

\* the QueueSet a swap leaves in each role
SwapQueues(sets) == [logic |-> sets.render, render |-> sets.logic]

\* ------------------------------------------------------------------------
\* std::barrier as used by FrameThreadControl
\* ------------------------------------------------------------------------
\* std::barrier(numThreads): expected arrivals per phase, arrivals so far in the
\* current phase, number of completed phases
NewBarrier(numThreads) == [expected |-> numThreads, arrived |-> 0, phase |-> 0]

\* a barrier that completes its phase one arrival early
ArriveShort(b) ==
    IF b.arrived + 1 >= b.expected - 1
    THEN [b EXCEPT !.arrived = 0, !.phase = b.phase + 1]
    ELSE [b EXCEPT !.arrived = b.arrived + 1]

\* a barrier that completes its phase when NUM_THREADS threads have arrived,
\* whatever count it was constructed with
ArriveIgnoresExpected(b) ==
    IF b.arrived + 1 = NUM_THREADS
    THEN [b EXCEPT !.arrived = 0, !.phase = b.phase + 1]
    ELSE [b EXCEPT !.arrived = b.arrived + 1]

\* a barrier whose phase counter skips a phase
ArriveSkipsPhase(b) ==
    IF b.arrived + 1 = b.expected
    THEN [b EXCEPT !.arrived = 0, !.phase = b.phase + 2]
    ELSE [b EXCEPT !.arrived = b.arrived + 1]

\* arrive: the last of the expected arrivals completes the phase; an arrival
\* after that counts for the next phase
Arrive(b) ==
    IF b.arrived + 1 = b.expected
    THEN [b EXCEPT !.arrived = 0, !.phase = b.phase + 1]
    ELSE [b EXCEPT !.arrived = b.arrived + 1]

\* a wait that does not block
ReleasedEarly(b, tok) == TRUE

\* wait: the phase the caller arrived in is complete
Released(b, tok) == b.phase # tok

\* a loop that is left whatever the flag says
ExitsLoopAlways(flag) == TRUE

\* while (!Control.ShouldFinish)
ExitsLoop(flag) == flag

\* ------------------------------------------------------------------------
\* State
\* ------------------------------------------------------------------------
VARIABLES
    q,          \* the RenderCmdQueue under test (queue specifications)
    NDEBUG,     \* the build: TRUE when assert() compiles to nothing
    fault,      \* "none", or how the program left defined behaviour
    live,       \* history: the commands pushed since the last Clear
    nextId,     \* history: number of commands pushed so far
    regions,    \* history: the OOB regions reserved since the last Clear
    lastCall,   \* history: what the most recent CallAll invoked
    fresh,      \* history: CallAll was the last operation
    lastGrow,   \* history: the buffer before and after the most recent Grow
    growCount,  \* history: number of Grow calls
    clears,     \* history: number of Clear calls
    opCount,    \* history: number of Push, OobPush*, Clear calls
    initCap     \* history: the capacity given to the constructor

queueVars == << q, NDEBUG, fault, live, nextId, regions, lastCall, fresh,
                lastGrow, growCount, clears, opCount, initCap >>

VARIABLES
    pc,                 \* where each thread is
    QSet,               \* RenderQueue::QSet[2], each a queue per RenderGroup
    LogicSet,           \* index of the QueueSet LogicSet points to
    RenderSet,          \* index of the QueueSet RenderSet points to
    ShouldFinish,       \* FrameThreadControl::ShouldFinish
    FrameStartBarrier,  \* FrameThreadControl::FrameStartBarrier
    FrameEndBarrier,    \* FrameThreadControl::FrameEndBarrier
    token,              \* per thread: the barrier phase it arrived in
    frameNum,           \* main's frameNum
    DeltaSeconds,       \* FrameThreadControl::DeltaSeconds
    FrameStartTime,     \* FrameThreadControl::FrameStartTime
    Cubes,              \* GameLogicThread::Cubes.size()
    cubeIdx,            \* GameLogicThread::Update: cubes already drawn
    textIdx,            \* GameLogicThread::Update: text lines already drawn
    keyState,           \* the key PollInputEvents latched for this frame
    pushedIn,           \* history: per frame and group, the ids pushed
    executedIn,         \* history: per frame and group, the ids executed
    tickStarted,        \* history: per thread, ticks started
    tickDone,           \* history: per thread, ticks returned
    endPassed,          \* history: per thread, FrameEnd rendezvous passed
    onEndCount,         \* history: per thread, calls of OnEnd
    finishFrame,        \* history: frame in which ShouldFinish was set, or -1
    pushTargets,        \* history: QueueSets pushed into by the running Update
    renderTargets,      \* history: QueueSets drained by the running frame work of main
    idCount             \* history: number of commands pushed so far

pipeVars == << pc, QSet, LogicSet, RenderSet, ShouldFinish, FrameStartBarrier,
               FrameEndBarrier, token, frameNum, DeltaSeconds, FrameStartTime,
               Cubes, cubeIdx, textIdx, keyState, pushedIn, executedIn,
               tickStarted, tickDone, endPassed, onEndCount, finishFrame,
               pushTargets, renderTargets, idCount >>

VARIABLES
    Instance,     \* RenderQueue::Instance: NullPtr or the object it points to
    alive,        \* the RenderQueue objects whose lifetime has not ended
    constructed,  \* history: the objects whose constructor has completed
    lastGet,      \* history: the object the most recent Get returned
    getCount,     \* history: number of Get calls
    lastOp        \* history: the most recent operation on RenderQueue

instVars == << Instance, alive, constructed, lastGet, getCount, lastOp >>

VARIABLES
    lastAt,   \* history: the most recent OobAt call and its outcome
    expired   \* history: the Ref positions issued before the most recent Clear

refVars == << lastAt, expired >>

VARIABLES
    pusher,     \* per worker, its position inside a Push on the shared queue q
                \* and the locals of that call (offset, the values it loaded)
    overlapped  \* history: some Push began while another Push was under way

raceVars == << pusher, overlapped >>

VARIABLES
    TickIndex,      \* FPSCalculator::TickIndex
    TickSum,        \* FPSCalculator::TickSum, in microseconds
    TickList,       \* FPSCalculator::TickList, in microseconds, indexed from 0
    NumTicks,       \* FPSCalculator::NumTicks
    AvgMsPerFrame,  \* FPSCalculator::AvgMsPerFrame as the fraction num / den
    Fps,            \* FPSCalculator::Fps as the fraction num / den
    deltas          \* history: the microseconds of every Tick so far

fpsVars == << TickIndex, TickSum, TickList, NumTicks, AvgMsPerFrame, Fps, deltas >>

vars == << queueVars, pipeVars, instVars, refVars, raceVars, fpsVars >>

NoGrow == [happened |-> FALSE, used |-> 0, before |-> << >>, after |-> << >>]

\* sizeof(Wrapper<T>) for lambdas capturing one int / up to three ints
PushSizes == {16, 24}
\* initial capacities given to the constructor
InitCaps == {0, 40}
\* the data handed to OobPush<uint8_t>
OobData == { [i \in 1..9 |-> ByteCell(100 + i)] }
\* the counts handed to OobPushEmpty<uint8_t>
OobCounts == {0, 3}

\* ------------------------------------------------------------------------
\* The frame pipeline: threads, initial state
\* ------------------------------------------------------------------------
Workers == {"GameLogic", "Physics"}
Threads == {"Main"} \cup Workers
Frames == 0..MaxFrames

\* keys PollInputEvents can latch: none, KEY_LEFT_BRACKET, KEY_RIGHT_BRACKET
Keys == {"none", "left", "right"}

\* length of each text line GameLogicThread::Update draws
TextLines == << 6, 28, 26, 25, 21, 39 >>

\* inside FrameThread::Update / inside main's frame work
UpdatePcs == {"update_cubes", "update_text", "update_keys", "update_sleep"}
RenderPcs == {"render_world_call", "render_world_clear", "render_ui_call",
              "render_ui_clear", "window_close"}

NoIds == [f \in Frames |-> [d \in Domains |-> << >>]]

\* the state when main has constructed its RenderQueue and started no thread,
\* with thControl constructed for numThreads parties
PipeStart(numThreads) ==
    /\ pc = [t \in Threads |-> IF t = "Main" THEN "start_gamelogic" ELSE "idle"]
    /\ QSet = [s \in {0, 1} |-> [d \in Domains |-> NewQueue(0)]]
    /\ LogicSet = 0
    /\ RenderSet = 1
    /\ ShouldFinish = FALSE
    /\ FrameStartBarrier = NewBarrier(numThreads)
    /\ FrameEndBarrier = NewBarrier(numThreads)
    /\ token = [t \in Threads |-> 0]
    /\ frameNum = 0
    /\ DeltaSeconds = 0
    /\ FrameStartTime = 0
    /\ Cubes = 0
    /\ cubeIdx = 0
    /\ textIdx = 0
    /\ keyState = "none"
    /\ pushedIn = NoIds
    /\ executedIn = NoIds
    /\ tickStarted = [t \in Threads |-> 0]
    /\ tickDone = [t \in Threads |-> 0]
    /\ endPassed = [t \in Threads |-> 0]
    /\ onEndCount = [t \in Workers |-> 0]
    /\ finishFrame = 0 - 1
    /\ pushTargets = {}
    /\ renderTargets = {}
    /\ idCount = 0

\* FrameThreadControl thControl(NUM_THREADS)
InitPipe == PipeStart(NUM_THREADS)

\* the queue under test of the queue specifications, unused by the pipeline
NoAt == [called |-> FALSE, ref |-> InvalidValue, used |-> 0,
         returned |-> FALSE, expired |-> FALSE]

\* no OobAt call was made and no Ref was issued
\* no Push under way
PusherIdle == [pc |-> "idle", id |-> 0, offset |-> 0, loaded |-> 0]

RaceIdle ==
    /\ pusher = [w \in Workers |-> PusherIdle]
    /\ overlapped = FALSE

\* a fraction num / den; den = 0 stands for the float infinity or NaN
Fraction(num, den) == [num |-> num, den |-> den]

\* FPSCalculator<MaxSamples>(): the member initializers
FpsIdle ==
    /\ TickIndex = 0
    /\ TickSum = 0
    /\ TickList = [i \in 0..(MaxSamples - 1) |-> 0]
    /\ NumTicks = 0
    /\ AvgMsPerFrame = Fraction(0, 1)
    /\ Fps = Fraction(0, 1)
    /\ deltas = << >>

RefIdle ==
    /\ lastAt = NoAt
    /\ expired = {}

\* nullptr
NullPtr == 0
\* the RenderQueue objects a program may define
Objects == 1..MaxObjects

NoOp == [op |-> "none", obj |-> NullPtr, had |-> {}]

\* no RenderQueue has been constructed
InstNone ==
    /\ Instance = NullPtr
    /\ alive = {}
    /\ constructed = {}
    /\ lastGet = NullPtr
    /\ getCount = 0
    /\ lastOp = NoOp

\* main has constructed its renderQueue
InstMain ==
    /\ Instance = 1
    /\ alive = {1}
    /\ constructed = {1}
    /\ lastGet = NullPtr
    /\ getCount = 0
    /\ lastOp = NoOp

QueueIdle ==
    /\ initCap = 0
    /\ q = NewQueue(0)
    /\ NDEBUG = TRUE
    /\ fault = "none"
    /\ live = << >>
    /\ nextId = 0
    /\ regions = << >>
    /\ lastCall = << >>
    /\ fresh = FALSE
    /\ lastGrow = NoGrow
    /\ growCount = 0
    /\ clears = 0
    /\ opCount = 0
    /\ RefIdle
    /\ RaceIdle
    /\ FpsIdle

\* history of a Grow made by a push or reservation of n bytes on queue s
GrowRecord(s, n) ==
    IF NeedsGrow(s, n)
    THEN [happened |-> TRUE, used |-> s.UsedCapacity,
          before |-> s.Data, after |-> Grow(s, n).Data]
    ELSE NoGrow

GrowTick(s, n) == IF NeedsGrow(s, n) THEN growCount + 1 ELSE growCount

InitQueue ==
    /\ initCap \in InitCaps
    /\ q = NewQueue(initCap)
    /\ NDEBUG = TRUE
    /\ fault = "none"
    /\ live = << >>
    /\ nextId = 0
    /\ regions = << >>
    /\ lastCall = << >>
    /\ fresh = FALSE
    /\ lastGrow = NoGrow
    /\ growCount = 0
    /\ clears = 0
    /\ opCount = 0
    /\ RefIdle
    /\ RaceIdle
    /\ FpsIdle
    /\ InitPipe
    /\ InstMain

\* a push or reservation of n bytes on queue s writes outside an allocation:
\* in the memcpy of Grow, or where the new bytes are placed
WriteFault(s, n, written) ==
    IF \/ NeedsGrow(s, n) /\ GrowLosesBytes(s, n)
       \/ Overruns(IF NeedsGrow(s, n) THEN Grow(s, n) ELSE s, s.UsedCapacity, written)
    THEN "overrun" ELSE "none"

\* q.Push(lambda logging its id), with sizeof(Wrapper<T>) = needed
QPush(needed) ==
    /\ fault = "none"
    /\ opCount < MaxOps
    /\ opCount' = opCount + 1
    /\ lastCall' = << >>
    /\ q' = Push(q, needed, "log", nextId + 1, 0, 0)
    /\ fault' = WriteFault(q, needed, needed)
    /\ live' = Append(live, [id |-> nextId + 1, op |-> "log", size |-> needed, len |-> 0])
    /\ nextId' = nextId + 1
    /\ lastGrow' = GrowRecord(q, needed)
    /\ growCount' = GrowTick(q, needed)
    /\ fresh' = FALSE
    /\ UNCHANGED << NDEBUG, regions, clears, initCap >>
    /\ UNCHANGED << pipeVars, instVars, refVars, raceVars, fpsVars >>

\* the history entry of a region of count bytes reserved on queue s giving t
Region(s, t, count) ==
    [ref |-> OobRef(s, count, 1), len |-> count,
     reserved |-> AlignedNeeded(count, 1),
     content |-> ReadCells(t, OobRef(s, count, 1), count),
     after |-> nextId, grows |-> growCount]

\* q.OobPushEmpty<uint8_t>(count)
QOobPushEmpty(count) ==
    /\ fault = "none"
    /\ opCount < MaxOps
    /\ opCount' = opCount + 1
    /\ lastCall' = << >>
    /\ q' = OobPushEmpty(q, count, 1)
    /\ fault' = WriteFault(q, AlignedNeeded(count, 1), 0)
    /\ regions' = Append(regions, Region(q, q', count))
    /\ lastGrow' = GrowRecord(q, AlignedNeeded(count, 1))
    /\ growCount' = GrowTick(q, AlignedNeeded(count, 1))
    /\ fresh' = FALSE
    /\ UNCHANGED << NDEBUG, live, nextId, clears, initCap >>
    /\ UNCHANGED << pipeVars, instVars, refVars, raceVars, fpsVars >>

\* q.OobPush<uint8_t>(bytes, count)
QOobPush(bytes) ==
    /\ fault = "none"
    /\ opCount < MaxOps
    /\ opCount' = opCount + 1
    /\ lastCall' = << >>
    /\ q' = OobPush(q, bytes)
    /\ fault' = WriteFault(q, AlignedNeeded(Len(bytes), 1), Len(bytes))
    /\ regions' = Append(regions, Region(q, q', Len(bytes)))
    /\ lastGrow' = GrowRecord(q, AlignedNeeded(Len(bytes), 1))
    /\ growCount' = GrowTick(q, AlignedNeeded(Len(bytes), 1))
    /\ fresh' = FALSE
    /\ UNCHANGED << NDEBUG, live, nextId, clears, initCap >>
    /\ UNCHANGED << pipeVars, instVars, refVars, raceVars, fpsVars >>

\* q.CallAll(); reading something that is no record is undefined behaviour
QCallAll ==
    /\ fault = "none"
    /\ ~fresh
    /\ lastCall' = CallAll(q)
    /\ fresh' = TRUE
    /\ fault' = IF \E i \in 1..Len(CallAll(q)) : CallAll(q)[i] = Garbage
                THEN "wild_call" ELSE "none"
    /\ lastGrow' = NoGrow
    /\ UNCHANGED << q, NDEBUG, live, nextId, regions, growCount, clears, opCount, initCap >>
    /\ UNCHANGED << pipeVars, instVars, refVars, raceVars, fpsVars >>

\* the Ref positions issued since the last Clear
IssuedRefs == {regions[i].ref : i \in 1..Len(regions)}

\* q.Clear()
QClear ==
    /\ fault = "none"
    /\ opCount < MaxOps
    /\ opCount' = opCount + 1
    /\ lastCall' = << >>
    /\ lastGrow' = NoGrow
    /\ q' = Clear(q)
    /\ live' = << >>
    /\ regions' = << >>
    /\ clears' = clears + 1
    /\ fresh' = FALSE
    /\ expired' = expired \cup IssuedRefs
    /\ UNCHANGED << NDEBUG, fault, nextId, growCount, initCap, lastAt >>
    /\ UNCHANGED << pipeVars, instVars, raceVars, fpsVars >>

NextQueue ==
    \/ \E needed \in PushSizes : QPush(needed)
    \/ \E count \in OobCounts : QOobPushEmpty(count)
    \/ \E bytes \in OobData : QOobPush(bytes)
    \/ QCallAll
    \/ QClear

SpecQueue == InitQueue /\ [][NextQueue]_vars

\* ------------------------------------------------------------------------
\* Refs handed back to the queue: OobAt (SpecRef)
\* ------------------------------------------------------------------------
\* the Refs a caller may hold: default-constructed (unset), Ref(0),
\* Ref(UsedCapacity), and every Ref a reservation has returned
RefPool == {InvalidValue, 0, q.UsedCapacity} \cup IssuedRefs \cup expired

RefPushSizes == {16}
RefCounts == {3}

InitRef ==
    /\ initCap \in InitCaps
    /\ q = NewQueue(initCap)
    /\ NDEBUG \in BOOLEAN
    /\ fault = "none"
    /\ live = << >>
    /\ nextId = 0
    /\ regions = << >>
    /\ lastCall = << >>
    /\ fresh = FALSE
    /\ lastGrow = NoGrow
    /\ growCount = 0
    /\ clears = 0
    /\ opCount = 0
    /\ RefIdle
    /\ RaceIdle
    /\ FpsIdle
    /\ InitPipe
    /\ InstMain

\* q.OobAt(ref): the assertion, then the pointer Data + ref.Pos
QOobAt(ref) ==
    /\ fault = "none"
    /\ opCount < MaxOps
    /\ opCount' = opCount + 1
    /\ lastAt' = [called |-> TRUE, ref |-> ref, used |-> q.UsedCapacity,
                  returned |-> OobAtOk(q, ref) \/ NDEBUG,
                  expired |-> ref \in expired \ IssuedRefs]
    /\ fault' = IF ~OobAtOk(q, ref) /\ ~NDEBUG THEN "assert" ELSE fault
    /\ UNCHANGED << q, NDEBUG, live, nextId, regions, lastCall, fresh,
                    lastGrow, growCount, clears, initCap, expired >>
    /\ UNCHANGED << pipeVars, instVars, raceVars, fpsVars >>

NextRef ==
    \/ \E needed \in RefPushSizes : QPush(needed)
    \/ \E count \in RefCounts : QOobPushEmpty(count)
    \/ QClear
    \/ \E ref \in RefPool : QOobAt(ref)

SpecRef == InitRef /\ [][NextRef]_vars

\* the same queue, where a reservation may also ask for more than 2^31 bytes:
\* OobPushEmpty<uint8_t>(0x80000001) and OobPushEmpty<uint8_t>(0xFFFFFFFF)
HugeCounts == {MinInt32 + 1, 0 - 1}

NextBig ==
    \/ NextQueue
    \/ \E count \in HugeCounts : QOobPushEmpty(count)

SpecBig == InitQueue /\ [][NextBig]_vars


\* ------------------------------------------------------------------------
\* RenderQueue::DrawText and DrawRectangle on one UI queue (SpecText)
\* ------------------------------------------------------------------------
\* lengths of the texts drawn, and initial capacities of the queue
TextLens == {0, 7, 39, 254, 255, 256}
TextInitCaps == {0, 512}

InitText ==
    /\ initCap \in TextInitCaps
    /\ q = NewQueue(initCap)
    /\ NDEBUG \in BOOLEAN
    /\ fault = "none"
    /\ live = << >>
    /\ nextId = 0
    /\ regions = << >>
    /\ lastCall = << >>
    /\ fresh = FALSE
    /\ lastGrow = NoGrow
    /\ growCount = 0
    /\ clears = 0
    /\ opCount = 0
    /\ RefIdle
    /\ RaceIdle
    /\ FpsIdle
    /\ InitPipe
    /\ InstMain

\* RenderQueue::DrawText(Text(len), ...).  A failed assert aborts a debug build;
\* a memcpy that leaves the allocation is undefined behaviour: the model records
\* it in fault and follows the program no further.
TDrawText(len) ==
    /\ fault = "none"
    /\ nextId < MaxDraw
    /\ fault' = IF ~NDEBUG /\ PushStringAsserts(q, Text(len)) THEN "assert"
                ELSE IF PushStringOverruns(q, Text(len)) THEN "overrun"
                ELSE "none"
    /\ q' = IF ~NDEBUG /\ PushStringAsserts(q, Text(len))
            THEN OobPushEmpty(q, PushStringCount(Text(len)), 1)
            ELSE IF PushStringOverruns(q, Text(len))
            THEN PushString(q, Text(len))
            ELSE DrawText(q, Text(len), nextId + 1)
    /\ live' = Append(live, [id |-> nextId + 1, op |-> "text",
                             size |-> SizeofTextCmd, len |-> len])
    /\ nextId' = nextId + 1
    /\ opCount' = opCount + 1
    /\ lastCall' = << >>
    /\ fresh' = FALSE
    /\ lastGrow' = IF NeedsGrow(PushString(q, Text(len)), SizeofTextCmd) /\ fault' = "none"
                   THEN GrowRecord(PushString(q, Text(len)), SizeofTextCmd)
                   ELSE GrowRecord(q, AlignedNeeded(PushStringCount(Text(len)), 1))
    /\ growCount' = growCount
                     + (IF NeedsGrow(q, AlignedNeeded(PushStringCount(Text(len)), 1)) THEN 1 ELSE 0)
                     + (IF NeedsGrow(PushString(q, Text(len)), SizeofTextCmd) /\ fault' = "none"
                        THEN 1 ELSE 0)
    /\ UNCHANGED << NDEBUG, regions, clears, initCap >>
    /\ UNCHANGED << pipeVars, instVars, refVars, raceVars, fpsVars >>

\* RenderQueue::DrawRectangle(...)
TDrawRectangle ==
    /\ fault = "none"
    /\ nextId < MaxDraw
    /\ q' = DrawRectangle(q, nextId + 1)
    /\ live' = Append(live, [id |-> nextId + 1, op |-> "rect",
                             size |-> SizeofRectCmd, len |-> 0])
    /\ nextId' = nextId + 1
    /\ opCount' = opCount + 1
    /\ lastCall' = << >>
    /\ fresh' = FALSE
    /\ lastGrow' = GrowRecord(q, SizeofRectCmd)
    /\ growCount' = GrowTick(q, SizeofRectCmd)
    /\ UNCHANGED << NDEBUG, fault, regions, clears, initCap >>
    /\ UNCHANGED << pipeVars, instVars, refVars, raceVars, fpsVars >>

NextText ==
    \/ \E len \in TextLens : TDrawText(len)
    \/ TDrawRectangle
    \/ QCallAll
    \/ QClear

SpecText == InitText /\ [][NextText]_vars

\* ------------------------------------------------------------------------
\* RenderQueue as a singleton: construction, destruction and Get (SpecInstance)
\* ------------------------------------------------------------------------
\* a constructor that never checks Instance
ConstructorAssertsNever(inst) == FALSE

\* assert(!Instance) fails
ConstructorAsserts(inst) == inst # NullPtr

\* assert(Instance) fails
GetAsserts(inst) == inst = NullPtr

InitInstance ==
    /\ initCap = 0
    /\ q = NewQueue(0)
    /\ NDEBUG \in BOOLEAN
    /\ fault = "none"
    /\ live = << >>
    /\ nextId = 0
    /\ regions = << >>
    /\ lastCall = << >>
    /\ fresh = FALSE
    /\ lastGrow = NoGrow
    /\ growCount = 0
    /\ clears = 0
    /\ opCount = 0
    /\ RefIdle
    /\ RaceIdle
    /\ FpsIdle
    /\ InitPipe
    /\ InstNone

\* RenderQueue o; (the members LogicSet, RenderSet and QSet of the new object
\* start as in InitPipe)
IConstruct(o) ==
    /\ fault = "none"
    /\ o \notin constructed
    /\ lastOp' = [op |-> "construct", obj |-> o, had |-> constructed]
    /\ IF ConstructorAsserts(Instance) /\ ~NDEBUG
       THEN /\ fault' = "assert"
            /\ UNCHANGED << Instance, alive, constructed >>
       ELSE /\ Instance' = o
            /\ alive' = alive \cup {o}
            /\ constructed' = constructed \cup {o}
            /\ UNCHANGED fault
    /\ UNCHANGED << lastGet, getCount >>
    /\ UNCHANGED << q, NDEBUG, live, nextId, regions, lastCall, fresh,
                    lastGrow, growCount, clears, opCount, initCap >>
    /\ UNCHANGED << pipeVars, refVars, raceVars, fpsVars >>

\* the lifetime of o ends: the implicit destructor leaves Instance as it is
IDestroy(o) ==
    /\ fault = "none"
    /\ o \in alive
    /\ alive' = alive \ {o}
    /\ lastOp' = [op |-> "destroy", obj |-> o, had |-> constructed]
    /\ UNCHANGED << Instance, constructed, lastGet, getCount >>
    /\ UNCHANGED << queueVars, pipeVars, refVars, raceVars, fpsVars >>

\* RenderQueue::Get()
IGet ==
    /\ fault = "none"
    /\ getCount < MaxGets
    /\ getCount' = getCount + 1
    /\ lastOp' = [op |-> "get", obj |-> NullPtr, had |-> constructed]
    /\ IF GetAsserts(Instance)
       THEN /\ fault' = IF NDEBUG THEN "null_deref" ELSE "assert"
            /\ UNCHANGED lastGet
       ELSE /\ lastGet' = Instance
            /\ UNCHANGED fault
    /\ UNCHANGED << Instance, alive, constructed >>
    /\ UNCHANGED << q, NDEBUG, live, nextId, regions, lastCall, fresh,
                    lastGrow, growCount, clears, opCount, initCap >>
    /\ UNCHANGED << pipeVars, refVars, raceVars, fpsVars >>

NextInstance ==
    \/ \E o \in Objects : IConstruct(o)
    \/ \E o \in Objects : IDestroy(o)
    \/ IGet

SpecInstance == InitInstance /\ [][NextInstance]_vars

\* ------------------------------------------------------------------------
\* The frame pipeline: main (coordinator)
\* ------------------------------------------------------------------------
\* the number of frames a run is followed for: MaxFrames when the barriers
\* are constructed for the threads that use them, MaxLooseFrames otherwise
FrameCap ==
    IF FrameStartBarrier.expected = NUM_THREADS THEN MaxFrames ELSE MaxLooseFrames

Goto(t, l) == pc' = [pc EXCEPT ![t] = l]

\* gameLogicTh.Start(): the thread begins with OnStart
MainStartGameLogic ==
    /\ pc["Main"] = "start_gamelogic"
    /\ pc' = [pc EXCEPT !["Main"] = "start_physics", !["GameLogic"] = "on_start"]
    /\ UNCHANGED << QSet, LogicSet, RenderSet, ShouldFinish, FrameStartBarrier,
                    FrameEndBarrier, token, frameNum, DeltaSeconds, FrameStartTime,
                    Cubes, cubeIdx, textIdx, keyState, pushedIn, executedIn,
                    tickStarted, tickDone, endPassed, onEndCount, finishFrame,
                    pushTargets, renderTargets, idCount >>
    /\ UNCHANGED << queueVars, instVars, refVars, raceVars, fpsVars >>

\* physicsTh.Start()
MainStartPhysics ==
    /\ pc["Main"] = "start_physics"
    /\ pc' = [pc EXCEPT !["Main"] = "check", !["Physics"] = "on_start"]
    /\ UNCHANGED << QSet, LogicSet, RenderSet, ShouldFinish, FrameStartBarrier,
                    FrameEndBarrier, token, frameNum, DeltaSeconds, FrameStartTime,
                    Cubes, cubeIdx, textIdx, keyState, pushedIn, executedIn,
                    tickStarted, tickDone, endPassed, onEndCount, finishFrame,
                    pushTargets, renderTargets, idCount >>
    /\ UNCHANGED << queueVars, instVars, refVars, raceVars, fpsVars >>

\* while (!thControl.ShouldFinish)
MainCheck ==
    /\ pc["Main"] = "check"
    /\ Goto("Main", IF ExitsLoop(ShouldFinish) THEN "close_window" ELSE "arrive_start")
    /\ UNCHANGED << QSet, LogicSet, RenderSet, ShouldFinish, FrameStartBarrier,
                    FrameEndBarrier, token, frameNum, DeltaSeconds, FrameStartTime,
                    Cubes, cubeIdx, textIdx, keyState, pushedIn, executedIn,
                    tickStarted, tickDone, endPassed, onEndCount, finishFrame,
                    pushTargets, renderTargets, idCount >>
    /\ UNCHANGED << queueVars, instVars, refVars, raceVars, fpsVars >>

\* FrameStartBarrier.arrive_and_wait(): arrival
ArriveStart(t) ==
    /\ pc[t] = "arrive_start"
    /\ token' = [token EXCEPT ![t] = FrameStartBarrier.phase]
    /\ FrameStartBarrier' = Arrive(FrameStartBarrier)
    /\ Goto(t, "wait_start")
    /\ UNCHANGED << QSet, LogicSet, RenderSet, ShouldFinish,
                    FrameEndBarrier, frameNum, DeltaSeconds, FrameStartTime,
                    Cubes, cubeIdx, textIdx, keyState, pushedIn, executedIn,
                    tickStarted, tickDone, endPassed, onEndCount, finishFrame,
                    pushTargets, renderTargets, idCount >>
    /\ UNCHANGED << queueVars, instVars, refVars, raceVars, fpsVars >>

\* a main whose frame work leaves Render out
MainWaitStartSkipsRender ==
    /\ pc["Main"] = "wait_start"
    /\ Released(FrameStartBarrier, token["Main"])
    /\ Goto("Main", "window_close")
    /\ tickStarted' = [tickStarted EXCEPT !["Main"] = @ + 1]
    /\ renderTargets' = {}
    /\ UNCHANGED << QSet, LogicSet, RenderSet, ShouldFinish, FrameStartBarrier,
                    FrameEndBarrier, token, frameNum, DeltaSeconds, FrameStartTime,
                    Cubes, cubeIdx, textIdx, keyState, pushedIn, executedIn,
                    tickDone, endPassed, onEndCount, finishFrame,
                    pushTargets, idCount >>
    /\ UNCHANGED << queueVars, instVars, refVars, raceVars, fpsVars >>

\* FrameStartBarrier.arrive_and_wait() returns in main: the frame work begins
MainWaitStart ==
    /\ pc["Main"] = "wait_start"
    /\ Released(FrameStartBarrier, token["Main"])
    /\ Goto("Main", "render_world_call")
    /\ tickStarted' = [tickStarted EXCEPT !["Main"] = @ + 1]
    /\ renderTargets' = {}
    /\ UNCHANGED << QSet, LogicSet, RenderSet, ShouldFinish, FrameStartBarrier,
                    FrameEndBarrier, token, frameNum, DeltaSeconds, FrameStartTime,
                    Cubes, cubeIdx, textIdx, keyState, pushedIn, executedIn,
                    tickDone, endPassed, onEndCount, finishFrame,
                    pushTargets, idCount >>
    /\ UNCHANGED << queueVars, instVars, refVars, raceVars, fpsVars >>

\* a Render that skips the replay of a group
RenderCallAllSkipped(group, from, to) ==
    /\ pc["Main"] = from
    /\ renderTargets' = renderTargets \cup {RenderSet}
    /\ Goto("Main", to)
    /\ UNCHANGED << QSet, LogicSet, RenderSet, ShouldFinish, FrameStartBarrier,
                    FrameEndBarrier, token, frameNum, DeltaSeconds, FrameStartTime,
                    Cubes, cubeIdx, textIdx, keyState, pushedIn, executedIn,
                    tickStarted, tickDone, endPassed, onEndCount, finishFrame,
                    pushTargets, idCount >>
    /\ UNCHANGED << queueVars, instVars, refVars, raceVars, fpsVars >>

\* a Render that replays the group's queue two times over
RenderCallAllTwice(group, from, to) ==
    /\ pc["Main"] = from
    /\ executedIn' = [executedIn EXCEPT ![frameNum][group] =
                         @ \o [i \in 1..Len(CallAll(QSet[RenderSet][group])) |->
                                  CallAll(QSet[RenderSet][group])[i].id]
                           \o [i \in 1..Len(CallAll(QSet[RenderSet][group])) |->
                                  CallAll(QSet[RenderSet][group])[i].id]]
    /\ renderTargets' = renderTargets \cup {RenderSet}
    /\ Goto("Main", to)
    /\ UNCHANGED << QSet, LogicSet, RenderSet, ShouldFinish, FrameStartBarrier,
                    FrameEndBarrier, token, frameNum, DeltaSeconds, FrameStartTime,
                    Cubes, cubeIdx, textIdx, keyState, pushedIn,
                    tickStarted, tickDone, endPassed, onEndCount, finishFrame,
                    pushTargets, idCount >>
    /\ UNCHANGED << queueVars, instVars, refVars, raceVars, fpsVars >>

\* RenderQueue::Render: RenderSet->Q[group].CallAll()
RenderCallAll(group, from, to) ==
    /\ pc["Main"] = from
    /\ executedIn' = [executedIn EXCEPT ![frameNum][group] =
                         @ \o [i \in 1..Len(CallAll(QSet[RenderSet][group])) |->
                                  CallAll(QSet[RenderSet][group])[i].id]]
    /\ renderTargets' = renderTargets \cup {RenderSet}
    /\ Goto("Main", to)
    /\ UNCHANGED << QSet, LogicSet, RenderSet, ShouldFinish, FrameStartBarrier,
                    FrameEndBarrier, token, frameNum, DeltaSeconds, FrameStartTime,
                    Cubes, cubeIdx, textIdx, keyState, pushedIn,
                    tickStarted, tickDone, endPassed, onEndCount, finishFrame,
                    pushTargets, idCount >>
    /\ UNCHANGED << queueVars, instVars, refVars, raceVars, fpsVars >>

\* a Render that leaves the group's queue as it is after the replay
RenderClearSkipped(group, from, to) ==
    /\ pc["Main"] = from
    /\ renderTargets' = renderTargets \cup {RenderSet}
    /\ Goto("Main", to)
    /\ UNCHANGED << QSet, LogicSet, RenderSet, ShouldFinish, FrameStartBarrier,
                    FrameEndBarrier, token, frameNum, DeltaSeconds, FrameStartTime,
                    Cubes, cubeIdx, textIdx, keyState, pushedIn, executedIn,
                    tickStarted, tickDone, endPassed, onEndCount, finishFrame,
                    pushTargets, idCount >>
    /\ UNCHANGED << queueVars, instVars, refVars, raceVars, fpsVars >>

\* RenderQueue::Render: RenderSet->Q[group].Clear()
RenderClear(group, from, to) ==
    /\ pc["Main"] = from
    /\ QSet' = [QSet EXCEPT ![RenderSet][group] = Clear(@)]
    /\ renderTargets' = renderTargets \cup {RenderSet}
    /\ Goto("Main", to)
    /\ UNCHANGED << LogicSet, RenderSet, ShouldFinish, FrameStartBarrier,
                    FrameEndBarrier, token, frameNum, DeltaSeconds, FrameStartTime,
                    Cubes, cubeIdx, textIdx, keyState, pushedIn, executedIn,
                    tickStarted, tickDone, endPassed, onEndCount, finishFrame,
                    pushTargets, idCount >>
    /\ UNCHANGED << queueVars, instVars, refVars, raceVars, fpsVars >>

RenderWorldCall == RenderCallAll("World", "render_world_call", "render_world_clear")
RenderWorldClear == RenderClear("World", "render_world_clear", "render_ui_call")
RenderUICall == RenderCallAll("UI", "render_ui_call", "render_ui_clear")
RenderUIClear == RenderClear("UI", "render_ui_clear", "window_close")

\* a main that leaves its loop (break) as soon as the window is closed, without
\* arriving at FrameEndBarrier
MainWindowShouldCloseBreaks(close) ==
    /\ pc["Main"] = "window_close"
    /\ frameNum + 1 >= FrameCap => close
    /\ ShouldFinish' = (ShouldFinish \/ close)
    /\ finishFrame' = IF close /\ ~ShouldFinish THEN frameNum ELSE finishFrame
    /\ tickDone' = [tickDone EXCEPT !["Main"] = @ + 1]
    /\ renderTargets' = {}
    /\ Goto("Main", IF close THEN "close_window" ELSE "arrive_end")
    /\ UNCHANGED << QSet, LogicSet, RenderSet, FrameStartBarrier,
                    FrameEndBarrier, token, frameNum, DeltaSeconds, FrameStartTime,
                    Cubes, cubeIdx, textIdx, keyState, pushedIn, executedIn,
                    tickStarted, endPassed, onEndCount,
                    pushTargets, idCount >>
    /\ UNCHANGED << queueVars, instVars, refVars, raceVars, fpsVars >>

\* if (WindowShouldClose()) thControl.ShouldFinish = true; the frame work ends.
\* The window is closed at the latest in frame FrameCap - 1.
MainWindowShouldClose(close) ==
    /\ pc["Main"] = "window_close"
    /\ frameNum + 1 >= FrameCap => close
    /\ ShouldFinish' = (ShouldFinish \/ close)
    /\ finishFrame' = IF close /\ ~ShouldFinish THEN frameNum ELSE finishFrame
    /\ tickDone' = [tickDone EXCEPT !["Main"] = @ + 1]
    /\ renderTargets' = {}
    /\ Goto("Main", "arrive_end")
    /\ UNCHANGED << QSet, LogicSet, RenderSet, FrameStartBarrier,
                    FrameEndBarrier, token, frameNum, DeltaSeconds, FrameStartTime,
                    Cubes, cubeIdx, textIdx, keyState, pushedIn, executedIn,
                    tickStarted, endPassed, onEndCount,
                    pushTargets, idCount >>
    /\ UNCHANGED << queueVars, instVars, refVars, raceVars, fpsVars >>

\* FrameEndBarrier.arrive_and_wait(): arrival
ArriveEnd(t) ==
    /\ pc[t] = "arrive_end"
    /\ token' = [token EXCEPT ![t] = FrameEndBarrier.phase]
    /\ FrameEndBarrier' = Arrive(FrameEndBarrier)
    /\ Goto(t, "wait_end")
    /\ UNCHANGED << QSet, LogicSet, RenderSet, ShouldFinish, FrameStartBarrier,
                    frameNum, DeltaSeconds, FrameStartTime,
                    Cubes, cubeIdx, textIdx, keyState, pushedIn, executedIn,
                    tickStarted, tickDone, endPassed, onEndCount, finishFrame,
                    pushTargets, renderTargets, idCount >>
    /\ UNCHANGED << queueVars, instVars, refVars, raceVars, fpsVars >>

\* a main that goes on to the boundary step without waiting for the others
MainWaitEndNoWait ==
    /\ pc["Main"] = "wait_end"
    /\ endPassed' = [endPassed EXCEPT !["Main"] = @ + 1]
    /\ Goto("Main", "boundary")
    /\ UNCHANGED << QSet, LogicSet, RenderSet, ShouldFinish, FrameStartBarrier,
                    FrameEndBarrier, token, frameNum, DeltaSeconds, FrameStartTime,
                    Cubes, cubeIdx, textIdx, keyState, pushedIn, executedIn,
                    tickStarted, tickDone, onEndCount, finishFrame,
                    pushTargets, renderTargets, idCount >>
    /\ UNCHANGED << queueVars, instVars, refVars, raceVars, fpsVars >>

\* FrameEndBarrier.arrive_and_wait() returns in main
MainWaitEnd ==
    /\ pc["Main"] = "wait_end"
    /\ Released(FrameEndBarrier, token["Main"])
    /\ endPassed' = [endPassed EXCEPT !["Main"] = @ + 1]
    /\ Goto("Main", "boundary")
    /\ UNCHANGED << QSet, LogicSet, RenderSet, ShouldFinish, FrameStartBarrier,
                    FrameEndBarrier, token, frameNum, DeltaSeconds, FrameStartTime,
                    Cubes, cubeIdx, textIdx, keyState, pushedIn, executedIn,
                    tickStarted, tickDone, onEndCount, finishFrame,
                    pushTargets, renderTargets, idCount >>
    /\ UNCHANGED << queueVars, instVars, refVars, raceVars, fpsVars >>

\* a main that tests for the window's closing in the boundary step, after
\* the workers have been released from FrameEndBarrier
MainBoundaryCloses(key) ==
    /\ pc["Main"] = "boundary"
    /\ LogicSet' = SwapQueues([logic |-> LogicSet, render |-> RenderSet]).logic
    /\ RenderSet' = SwapQueues([logic |-> LogicSet, render |-> RenderSet]).render
    /\ keyState' = key
    /\ frameNum' = frameNum + 1
    /\ DeltaSeconds' = (ClockStart + frameNum + 1) - FrameStartTime
    /\ FrameStartTime' = ClockStart + frameNum + 1
    /\ ShouldFinish' = (ShouldFinish \/ key = "right")
    /\ finishFrame' = IF key = "right" /\ ~ShouldFinish THEN frameNum ELSE finishFrame
    /\ Goto("Main", "check")
    /\ UNCHANGED << QSet, FrameStartBarrier,
                    FrameEndBarrier, token,
                    Cubes, cubeIdx, textIdx, pushedIn, executedIn,
                    tickStarted, tickDone, endPassed, onEndCount,
                    pushTargets, renderTargets, idCount >>
    /\ UNCHANGED << queueVars, instVars, refVars, raceVars, fpsVars >>

\* the boundary step: SwapQueues, PollInputEvents, ++frameNum, DeltaSeconds,
\* FrameStartTime; the clock reads ClockStart + (number of boundary steps)
MainBoundary(key) ==
    /\ pc["Main"] = "boundary"
    /\ LogicSet' = SwapQueues([logic |-> LogicSet, render |-> RenderSet]).logic
    /\ RenderSet' = SwapQueues([logic |-> LogicSet, render |-> RenderSet]).render
    /\ keyState' = key
    /\ frameNum' = frameNum + 1
    /\ DeltaSeconds' = (ClockStart + frameNum + 1) - FrameStartTime
    /\ FrameStartTime' = ClockStart + frameNum + 1
    /\ Goto("Main", "check")
    /\ UNCHANGED << QSet, ShouldFinish, FrameStartBarrier,
                    FrameEndBarrier, token,
                    Cubes, cubeIdx, textIdx, pushedIn, executedIn,
                    tickStarted, tickDone, endPassed, onEndCount, finishFrame,
                    pushTargets, renderTargets, idCount >>
    /\ UNCHANGED << queueVars, instVars, refVars, raceVars, fpsVars >>

\* CloseWindow(); return 0
MainCloseWindow ==
    /\ pc["Main"] = "close_window"
    /\ Goto("Main", "join_gamelogic")
    /\ UNCHANGED << QSet, LogicSet, RenderSet, ShouldFinish, FrameStartBarrier,
                    FrameEndBarrier, token, frameNum, DeltaSeconds, FrameStartTime,
                    Cubes, cubeIdx, textIdx, keyState, pushedIn, executedIn,
                    tickStarted, tickDone, endPassed, onEndCount, finishFrame,
                    pushTargets, renderTargets, idCount >>
    /\ UNCHANGED << queueVars, instVars, refVars, raceVars, fpsVars >>

\* ~FrameThread of gameLogicTh, then of physicsTh: Th.join()
MainJoin(w, from, to) ==
    /\ pc["Main"] = from
    /\ pc[w] = "done"
    /\ Goto("Main", to)
    /\ UNCHANGED << QSet, LogicSet, RenderSet, ShouldFinish, FrameStartBarrier,
                    FrameEndBarrier, token, frameNum, DeltaSeconds, FrameStartTime,
                    Cubes, cubeIdx, textIdx, keyState, pushedIn, executedIn,
                    tickStarted, tickDone, endPassed, onEndCount, finishFrame,
                    pushTargets, renderTargets, idCount >>
    /\ UNCHANGED << queueVars, instVars, refVars, raceVars, fpsVars >>

MainJoinGameLogic == MainJoin("GameLogic", "join_gamelogic", "join_physics")
MainJoinPhysics == MainJoin("Physics", "join_physics", "exited")

\* ------------------------------------------------------------------------
\* The frame pipeline: FrameThread::Start (workers)
\* ------------------------------------------------------------------------
\* OnStart(): GameLogicThread adds its first cubes
WorkerOnStart(w) ==
    /\ pc[w] = "on_start"
    /\ Cubes' = IF w = "GameLogic" THEN MaxCubes ELSE Cubes
    /\ Goto(w, "check")
    /\ UNCHANGED << QSet, LogicSet, RenderSet, ShouldFinish, FrameStartBarrier,
                    FrameEndBarrier, token, frameNum, DeltaSeconds, FrameStartTime,
                    cubeIdx, textIdx, keyState, pushedIn, executedIn,
                    tickStarted, tickDone, endPassed, onEndCount, finishFrame,
                    pushTargets, renderTargets, idCount >>
    /\ UNCHANGED << queueVars, instVars, refVars, raceVars, fpsVars >>

\* while (!Control.ShouldFinish); a worker starts at most FrameCap ticks
WorkerCheck(w) ==
    /\ pc[w] = "check"
    /\ ~ExitsLoop(ShouldFinish) => tickStarted[w] < FrameCap
    /\ Goto(w, IF ExitsLoop(ShouldFinish) THEN "on_end" ELSE "arrive_start")
    /\ UNCHANGED << QSet, LogicSet, RenderSet, ShouldFinish, FrameStartBarrier,
                    FrameEndBarrier, token, frameNum, DeltaSeconds, FrameStartTime,
                    Cubes, cubeIdx, textIdx, keyState, pushedIn, executedIn,
                    tickStarted, tickDone, endPassed, onEndCount, finishFrame,
                    pushTargets, renderTargets, idCount >>
    /\ UNCHANGED << queueVars, instVars, refVars, raceVars, fpsVars >>

\* FrameStartBarrier.arrive_and_wait() returns in a worker: Update() is called
WorkerWaitStart(w) ==
    /\ pc[w] = "wait_start"
    /\ Released(FrameStartBarrier, token[w])
    /\ Goto(w, IF w = "GameLogic" THEN "update_cubes" ELSE "update_sleep")
    /\ tickStarted' = [tickStarted EXCEPT ![w] = @ + 1]
    /\ cubeIdx' = IF w = "GameLogic" THEN 0 ELSE cubeIdx
    /\ textIdx' = IF w = "GameLogic" THEN 0 ELSE textIdx
    /\ pushTargets' = IF w = "GameLogic" THEN {} ELSE pushTargets
    /\ UNCHANGED << QSet, LogicSet, RenderSet, ShouldFinish, FrameStartBarrier,
                    FrameEndBarrier, token, frameNum, DeltaSeconds, FrameStartTime,
                    Cubes, keyState, pushedIn, executedIn,
                    tickDone, endPassed, onEndCount, finishFrame,
                    renderTargets, idCount >>
    /\ UNCHANGED << queueVars, instVars, refVars, raceVars, fpsVars >>

\* GetQ taking the queue from the set being rendered
GetQRender == RenderSet

\* the set GetQ takes the queue from: RenderQueue::Get().LogicSet
GetQ == LogicSet

\* GameLogicThread::Update, cube loop: RenderQueue::DrawCubeEx for one cube
GameLogicDrawCube ==
    /\ pc["GameLogic"] = "update_cubes"
    /\ cubeIdx < Cubes
    /\ QSet' = [QSet EXCEPT ![GetQ]["World"] = DrawCubeEx(@, idCount + 1)]
    /\ pushedIn' = [pushedIn EXCEPT ![tickStarted["GameLogic"] - 1]["World"] =
                       Append(@, idCount + 1)]
    /\ pushTargets' = pushTargets \cup {GetQ}
    /\ idCount' = idCount + 1
    /\ cubeIdx' = cubeIdx + 1
    /\ UNCHANGED << pc, LogicSet, RenderSet, ShouldFinish, FrameStartBarrier,
                    FrameEndBarrier, token, frameNum, DeltaSeconds, FrameStartTime,
                    Cubes, textIdx, keyState, executedIn,
                    tickStarted, tickDone, endPassed, onEndCount, finishFrame,
                    renderTargets >>
    /\ UNCHANGED << queueVars, instVars, refVars, raceVars, fpsVars >>

\* GameLogicThread::Update after the cube loop: RenderQueue::DrawRectangle
GameLogicDrawRectangle ==
    /\ pc["GameLogic"] = "update_cubes"
    /\ cubeIdx = Cubes
    /\ QSet' = [QSet EXCEPT ![GetQ]["UI"] = DrawRectangle(@, idCount + 1)]
    /\ pushedIn' = [pushedIn EXCEPT ![tickStarted["GameLogic"] - 1]["UI"] =
                       Append(@, idCount + 1)]
    /\ pushTargets' = pushTargets \cup {GetQ}
    /\ idCount' = idCount + 1
    /\ Goto("GameLogic", "update_text")
    /\ UNCHANGED << LogicSet, RenderSet, ShouldFinish, FrameStartBarrier,
                    FrameEndBarrier, token, frameNum, DeltaSeconds, FrameStartTime,
                    Cubes, cubeIdx, textIdx, keyState, executedIn,
                    tickStarted, tickDone, endPassed, onEndCount, finishFrame,
                    renderTargets >>
    /\ UNCHANGED << queueVars, instVars, refVars, raceVars, fpsVars >>

\* GameLogicThread::Update: the next RenderQueue::DrawText
GameLogicDrawText ==
    /\ pc["GameLogic"] = "update_text"
    /\ textIdx < Len(TextLines)
    /\ QSet' = [QSet EXCEPT ![GetQ]["UI"] =
                   DrawText(@, Text(TextLines[textIdx + 1]), idCount + 1)]
    /\ pushedIn' = [pushedIn EXCEPT ![tickStarted["GameLogic"] - 1]["UI"] =
                       Append(@, idCount + 1)]
    /\ pushTargets' = pushTargets \cup {GetQ}
    /\ idCount' = idCount + 1
    /\ textIdx' = textIdx + 1
    /\ Goto("GameLogic", IF textIdx + 1 = Len(TextLines) THEN "update_keys" ELSE "update_text")
    /\ UNCHANGED << LogicSet, RenderSet, ShouldFinish, FrameStartBarrier,
                    FrameEndBarrier, token, frameNum, DeltaSeconds, FrameStartTime,
                    Cubes, cubeIdx, keyState, executedIn,
                    tickStarted, tickDone, endPassed, onEndCount, finishFrame,
                    renderTargets >>
    /\ UNCHANGED << queueVars, instVars, refVars, raceVars, fpsVars >>

\* GameLogicThread::Update: IsKeyPressed removes or adds cubes; Update returns
GameLogicKeys ==
    /\ pc["GameLogic"] = "update_keys"
    /\ Cubes' = IF keyState = "left" THEN Cubes - Min(1, Cubes)
                ELSE IF keyState = "right" THEN Min(Cubes + 1, MaxCubes)
                ELSE Cubes
    /\ tickDone' = [tickDone EXCEPT !["GameLogic"] = @ + 1]
    /\ pushTargets' = {}
    /\ Goto("GameLogic", "arrive_end")
    /\ UNCHANGED << QSet, LogicSet, RenderSet, ShouldFinish, FrameStartBarrier,
                    FrameEndBarrier, token, frameNum, DeltaSeconds, FrameStartTime,
                    cubeIdx, textIdx, keyState, pushedIn, executedIn,
                    tickStarted, endPassed, onEndCount, finishFrame,
                    renderTargets, idCount >>
    /\ UNCHANGED << queueVars, instVars, refVars, raceVars, fpsVars >>

\* PhysicsThread::Update: sleep_for(5ms); Update returns
PhysicsUpdate ==
    /\ pc["Physics"] = "update_sleep"
    /\ tickDone' = [tickDone EXCEPT !["Physics"] = @ + 1]
    /\ Goto("Physics", "arrive_end")
    /\ UNCHANGED << QSet, LogicSet, RenderSet, ShouldFinish, FrameStartBarrier,
                    FrameEndBarrier, token, frameNum, DeltaSeconds, FrameStartTime,
                    Cubes, cubeIdx, textIdx, keyState, pushedIn, executedIn,
                    tickStarted, endPassed, onEndCount, finishFrame,
                    pushTargets, renderTargets, idCount >>
    /\ UNCHANGED << queueVars, instVars, refVars, raceVars, fpsVars >>

\* a worker that goes round the loop without waiting for the others
WorkerWaitEndNoWait(w) ==
    /\ pc[w] = "wait_end"
    /\ endPassed' = [endPassed EXCEPT ![w] = @ + 1]
    /\ Goto(w, "check")
    /\ UNCHANGED << QSet, LogicSet, RenderSet, ShouldFinish, FrameStartBarrier,
                    FrameEndBarrier, token, frameNum, DeltaSeconds, FrameStartTime,
                    Cubes, cubeIdx, textIdx, keyState, pushedIn, executedIn,
                    tickStarted, tickDone, onEndCount, finishFrame,
                    pushTargets, renderTargets, idCount >>
    /\ UNCHANGED << queueVars, instVars, refVars, raceVars, fpsVars >>

\* FrameEndBarrier.arrive_and_wait() returns in a worker
WorkerWaitEnd(w) ==
    /\ pc[w] = "wait_end"
    /\ Released(FrameEndBarrier, token[w])
    /\ endPassed' = [endPassed EXCEPT ![w] = @ + 1]
    /\ Goto(w, "check")
    /\ UNCHANGED << QSet, LogicSet, RenderSet, ShouldFinish, FrameStartBarrier,
                    FrameEndBarrier, token, frameNum, DeltaSeconds, FrameStartTime,
                    Cubes, cubeIdx, textIdx, keyState, pushedIn, executedIn,
                    tickStarted, tickDone, onEndCount, finishFrame,
                    pushTargets, renderTargets, idCount >>
    /\ UNCHANGED << queueVars, instVars, refVars, raceVars, fpsVars >>

\* OnEnd(); the thread function returns
WorkerOnEnd(w) ==
    /\ pc[w] = "on_end"
    /\ onEndCount' = [onEndCount EXCEPT ![w] = @ + 1]
    /\ Goto(w, "done")
    /\ UNCHANGED << QSet, LogicSet, RenderSet, ShouldFinish, FrameStartBarrier,
                    FrameEndBarrier, token, frameNum, DeltaSeconds, FrameStartTime,
                    Cubes, cubeIdx, textIdx, keyState, pushedIn, executedIn,
                    tickStarted, tickDone, endPassed, finishFrame,
                    pushTargets, renderTargets, idCount >>
    /\ UNCHANGED << queueVars, instVars, refVars, raceVars, fpsVars >>

Init == InitPipe /\ QueueIdle /\ InstMain

Next ==
    \/ MainStartGameLogic
    \/ MainStartPhysics
    \/ MainCheck
    \/ \E t \in Threads : ArriveStart(t)
    \/ MainWaitStart
    \/ RenderWorldCall
    \/ RenderWorldClear
    \/ RenderUICall
    \/ RenderUIClear
    \/ \E close \in BOOLEAN : MainWindowShouldClose(close)
    \/ \E t \in Threads : ArriveEnd(t)
    \/ MainWaitEnd
    \/ \E key \in Keys : MainBoundary(key)
    \/ MainCloseWindow
    \/ MainJoinGameLogic
    \/ MainJoinPhysics
    \/ \E w \in Workers : WorkerOnStart(w)
    \/ \E w \in Workers : WorkerCheck(w)
    \/ \E w \in Workers : WorkerWaitStart(w)
    \/ GameLogicDrawCube
    \/ GameLogicDrawRectangle
    \/ GameLogicDrawText
    \/ GameLogicKeys
    \/ PhysicsUpdate
    \/ \E w \in Workers : WorkerWaitEnd(w)
    \/ \E w \in Workers : WorkerOnEnd(w)

Spec == Init /\ [][Next]_vars

\* the steps of main, and the steps of worker w
MainNext ==
    \/ MainStartGameLogic
    \/ MainStartPhysics
    \/ MainCheck
    \/ ArriveStart("Main")
    \/ MainWaitStart
    \/ RenderWorldCall
    \/ RenderWorldClear
    \/ RenderUICall
    \/ RenderUIClear
    \/ \E close \in BOOLEAN : MainWindowShouldClose(close)
    \/ ArriveEnd("Main")
    \/ MainWaitEnd
    \/ \E key \in Keys : MainBoundary(key)
    \/ MainCloseWindow
    \/ MainJoinGameLogic
    \/ MainJoinPhysics

WorkerNext(w) ==
    \/ WorkerOnStart(w)
    \/ WorkerCheck(w)
    \/ ArriveStart(w)
    \/ WorkerWaitStart(w)
    \/ (w = "GameLogic" /\ (GameLogicDrawCube \/ GameLogicDrawRectangle
                              \/ GameLogicDrawText \/ GameLogicKeys))
    \/ (w = "Physics" /\ PhysicsUpdate)
    \/ ArriveEnd(w)
    \/ WorkerWaitEnd(w)
    \/ WorkerOnEnd(w)

\* the pipeline under a fair scheduler: a thread that can take a step is not
\* suspended forever (Update and the frame work of main always return)
FairSpec ==
    /\ Init
    /\ [][Next]_vars
    /\ WF_vars(MainNext)
    /\ \A w \in Workers : WF_vars(WorkerNext(w))

\* the pipeline with thControl constructed for a party count that is not the
\* number of threads that synchronize: one too few, one too many
PartyCounts == {NUM_THREADS - 1, NUM_THREADS + 1}

InitParties == (\E k \in PartyCounts : PipeStart(k)) /\ QueueIdle /\ InstMain

SpecParties == InitParties /\ [][Next]_vars

\* ------------------------------------------------------------------------
\* Two workers pushing into one queue of the logic set in the same tick
\* ------------------------------------------------------------------------
\* RenderQueue::DrawRectangle is static and GetQ hands every caller the same
\* RenderCmdQueue; Push takes no lock, so the statements of two calls
\* interleave.  UsedCapacity += needed and ++NumElements are a load and a
\* store each.  Grow is followed as one step.
RaceInitCaps == {0, 64}

InitRace ==
    /\ initCap \in RaceInitCaps
    /\ q = NewQueue(initCap)
    /\ NDEBUG = TRUE
    /\ fault = "none"
    /\ live = << >>
    /\ nextId = 0
    /\ regions = << >>
    /\ lastCall = << >>
    /\ fresh = FALSE
    /\ lastGrow = NoGrow
    /\ growCount = 0
    /\ clears = 0
    /\ opCount = 0
    /\ RefIdle
    /\ RaceIdle
    /\ FpsIdle
    /\ InitPipe
    /\ InstMain

\* what no step of a racing Push touches
RaceFrame ==
    /\ UNCHANGED << NDEBUG, regions, lastCall, fresh, lastGrow, clears, opCount, initCap >>
    /\ UNCHANGED << pipeVars, instVars, refVars, fpsVars >>

\* worker w calls RenderQueue::DrawRectangle: Push(v) is entered
RPushBegin(w) ==
    /\ fault = "none"
    /\ ~fresh
    /\ pusher[w].pc = "idle"
    /\ nextId < MaxRacePushes
    /\ nextId' = nextId + 1
    /\ pusher' = [pusher EXCEPT ![w] = [PusherIdle EXCEPT !.pc = "check",
                                                          !.id = nextId + 1]]
    /\ overlapped' = (overlapped \/ \E u \in Workers \ {w} : pusher[u].pc # "idle")
    /\ UNCHANGED << q, fault, live, growCount >>
    /\ RaceFrame

\* if (GetFreeCapacity() < needed) Grow(needed);
RPushCheck(w) ==
    /\ fault = "none"
    /\ pusher[w].pc = "check"
    /\ q' = IF NeedsGrow(q, SizeofRectCmd) THEN Grow(q, SizeofRectCmd) ELSE q
    /\ growCount' = GrowTick(q, SizeofRectCmd)
    /\ pusher' = [pusher EXCEPT ![w].pc = "offset"]
    /\ UNCHANGED << fault, live, nextId, overlapped >>
    /\ RaceFrame

\* uint32_t offset = UsedCapacity;
RPushOffset(w) ==
    /\ fault = "none"
    /\ pusher[w].pc = "offset"
    /\ pusher' = [pusher EXCEPT ![w].pc = "construct", ![w].offset = q.UsedCapacity]
    /\ UNCHANGED << q, fault, live, nextId, growCount, overlapped >>
    /\ RaceFrame

\* new(Data + offset) Wrapper<T>(...); a record that does not fit in the
\* allocation any more is written outside it
RPushConstruct(w) ==
    /\ fault = "none"
    /\ pusher[w].pc = "construct"
    /\ fault' = IF Overruns(q, pusher[w].offset, SizeofRectCmd) THEN "overrun" ELSE "none"
    /\ q' = [q EXCEPT !.Data = WriteCells(q.Data, pusher[w].offset,
                                          WrapperCells(SizeofRectCmd, "rect",
                                                       pusher[w].id, 0, 0))]
    /\ pusher' = [pusher EXCEPT ![w].pc = "load_used"]
    /\ UNCHANGED << live, nextId, growCount, overlapped >>
    /\ RaceFrame

\* UsedCapacity += needed: the load
RPushLoadUsed(w) ==
    /\ fault = "none"
    /\ pusher[w].pc = "load_used"
    /\ pusher' = [pusher EXCEPT ![w].pc = "store_used", ![w].loaded = q.UsedCapacity]
    /\ UNCHANGED << q, fault, live, nextId, growCount, overlapped >>
    /\ RaceFrame

\* a store that keeps the value it loaded
RPushStoreUsedSame(w) ==
    /\ fault = "none"
    /\ pusher[w].pc = "store_used"
    /\ q' = [q EXCEPT !.UsedCapacity = pusher[w].loaded]
    /\ pusher' = [pusher EXCEPT ![w].pc = "load_num"]
    /\ UNCHANGED << fault, live, nextId, growCount, overlapped >>
    /\ RaceFrame

\* UsedCapacity += needed: the store
RPushStoreUsed(w) ==
    /\ fault = "none"
    /\ pusher[w].pc = "store_used"
    /\ q' = [q EXCEPT !.UsedCapacity = U32Add(pusher[w].loaded, SizeofRectCmd)]
    /\ pusher' = [pusher EXCEPT ![w].pc = "load_num"]
    /\ UNCHANGED << fault, live, nextId, growCount, overlapped >>
    /\ RaceFrame

\* ++NumElements: the load
RPushLoadNum(w) ==
    /\ fault = "none"
    /\ pusher[w].pc = "load_num"
    /\ pusher' = [pusher EXCEPT ![w].pc = "store_num", ![w].loaded = q.NumElements]
    /\ UNCHANGED << q, fault, live, nextId, growCount, overlapped >>
    /\ RaceFrame

\* ++NumElements: the store
RPushStoreNum(w) ==
    /\ fault = "none"
    /\ pusher[w].pc = "store_num"
    /\ q' = [q EXCEPT !.NumElements = U32Add(pusher[w].loaded, 1)]
    /\ pusher' = [pusher EXCEPT ![w].pc = "first_last"]
    /\ UNCHANGED << fault, live, nextId, growCount, overlapped >>
    /\ RaceFrame

\* if (!First.IsSet()) First = Ref(offset); Last = Ref(offset); Push returns
RPushFirstLast(w) ==
    /\ fault = "none"
    /\ pusher[w].pc = "first_last"
    /\ q' = [q EXCEPT !.First = IF IsSet(q.First) THEN q.First ELSE pusher[w].offset,
                      !.Last = pusher[w].offset]
    /\ live' = Append(live, [id |-> pusher[w].id, op |-> "rect",
                             size |-> SizeofRectCmd, len |-> 0])
    /\ pusher' = [pusher EXCEPT ![w] = PusherIdle]
    /\ UNCHANGED << fault, nextId, growCount, overlapped >>
    /\ RaceFrame

\* the next frame: both workers are past FrameEndBarrier, the sets are
\* swapped and main's Render calls CallAll on the queue
RReplay ==
    /\ \A w \in Workers : pusher[w].pc = "idle"
    /\ nextId >= 1
    /\ QCallAll

NextRace ==
    \/ \E w \in Workers : RPushBegin(w)
    \/ \E w \in Workers : RPushCheck(w)
    \/ \E w \in Workers : RPushOffset(w)
    \/ \E w \in Workers : RPushConstruct(w)
    \/ \E w \in Workers : RPushLoadUsed(w)
    \/ \E w \in Workers : RPushStoreUsed(w)
    \/ \E w \in Workers : RPushLoadNum(w)
    \/ \E w \in Workers : RPushStoreNum(w)
    \/ \E w \in Workers : RPushFirstLast(w)
    \/ RReplay

SpecRace == InitRace /\ [][NextRace]_vars

\* ------------------------------------------------------------------------
\* FPSCalculator
\* ------------------------------------------------------------------------
\* the arguments of Tick followed, in tenths of a microsecond (1e-7 s): 0 s,
\* 2.5 us, 5.0007 ms and -1.5 us
TickDeltas == {0, 25, 50007, 0 - 15}

\* int32_t(deltaSeconds * 1000 * 1000): the conversion truncates toward zero
\* (the rounding of the float product is not followed)
ToMicroseconds(d) == IF d >= 0 THEN d \div 10 ELSE 0 - ((0 - d) \div 10)

\* an index that stays at the last slot
NextTickIndexStuck(i) == IF i + 1 = MaxSamples THEN i ELSE i + 1

\* if (++TickIndex == MaxSamples) TickIndex = 0;
NextTickIndex(i) == IF i + 1 = MaxSamples THEN 0 ELSE i + 1

InitFps ==
    /\ initCap = 0
    /\ q = NewQueue(0)
    /\ NDEBUG = TRUE
    /\ fault = "none"
    /\ live = << >>
    /\ nextId = 0
    /\ regions = << >>
    /\ lastCall = << >>
    /\ fresh = FALSE
    /\ lastGrow = NoGrow
    /\ growCount = 0
    /\ clears = 0
    /\ opCount = 0
    /\ RefIdle
    /\ RaceIdle
    /\ FpsIdle
    /\ InitPipe
    /\ InstMain

\* FPSCalculator::Tick(deltaSeconds), CalcVariance = false
FTick(d) ==
    /\ NumTicks < MaxTicks
    /\ NumTicks' = NumTicks + 1
    /\ TickSum' = (TickSum - TickList[TickIndex]) + ToMicroseconds(d)
    /\ TickList' = [TickList EXCEPT ![TickIndex] = ToMicroseconds(d)]
    /\ TickIndex' = NextTickIndex(TickIndex)
    /\ AvgMsPerFrame' = Fraction(TickSum', MaxSamples * 1000)
    /\ Fps' = Fraction(1000 * AvgMsPerFrame'.den, AvgMsPerFrame'.num)
    /\ deltas' = Append(deltas, ToMicroseconds(d))
    /\ UNCHANGED << queueVars, pipeVars, instVars, refVars, raceVars >>

NextFps == \E d \in TickDeltas : FTick(d)

SpecFps == InitFps /\ [][NextFps]_vars

\* the pipeline when the frame work of one party may fail to return: Update()
\* is virtual, and a worker's Update (or main's Render) that blocks or loops
\* leaves its thread inside the call for good.  At most one party stalls.
UpdateNeverReturns(t) ==
    /\ \A u \in Threads : pc[u] # "stalled"
    /\ pc[t] \in (IF t = "Main" THEN RenderPcs ELSE UpdatePcs)
    /\ Goto(t, "stalled")
    /\ UNCHANGED << QSet, LogicSet, RenderSet, ShouldFinish, FrameStartBarrier,
                    FrameEndBarrier, token, frameNum, DeltaSeconds, FrameStartTime,
                    Cubes, cubeIdx, textIdx, keyState, pushedIn, executedIn,
                    tickStarted, tickDone, endPassed, onEndCount, finishFrame,
                    pushTargets, renderTargets, idCount >>
    /\ UNCHANGED << queueVars, instVars, refVars, raceVars, fpsVars >>

NextStall ==
    \/ Next
    \/ \E t \in Threads : UpdateNeverReturns(t)

\* every thread that can take a step is scheduled; the stalled one has none
SpecStall ==
    /\ Init
    /\ [][NextStall]_vars
    /\ WF_vars(MainNext)
    /\ \A w \in Workers : WF_vars(WorkerNext(w))

\* ------------------------------------------------------------------------
\* Properties of RenderCmdQueue (SpecQueue)
\* ------------------------------------------------------------------------
Ids(log) == [i \in 1..Len(log) |-> log[i].id]

LiveIds == {live[i].id : i \in 1..Len(live)}

\* C1: whatever was pushed (any sizes, any initial capacity, any number of
\* Grow calls), CallAll invokes each pushed record exactly once, in push order.
C1_ReplayInPushOrder == fresh => Ids(lastCall) = Ids(live)

C1_Witness ==
    /\ fresh
    /\ initCap = 0
    /\ growCount >= 3
    /\ Len(live) >= 4
    /\ \E i, j \in 1..Len(live) : live[i].size # live[j].size
    /\ Ids(lastCall) = Ids(live)

\* the bytes reserved for region r, and the bytes of a record header at p
RegionBytes(r) == r.ref .. (r.ref + r.reserved - 1)
HeaderBytes(p) == p .. (p + PayloadOffset - 1)

C7_GrowKeepsRefs ==
    /\ lastGrow.happened =>
          /\ Len(lastGrow.after) >= lastGrow.used
          /\ \A i \in 1..lastGrow.used : lastGrow.after[i] = lastGrow.before[i]
    /\ \A i \in 1..Len(regions) :
          regions[i].grows < growCount =>
              ReadCells(q, regions[i].ref, regions[i].len) = regions[i].content

C7_Witness ==
    /\ lastGrow.happened
    /\ lastGrow.used >= 32
    /\ \E i \in 1..Len(regions) :
          /\ regions[i].len = 9
          /\ regions[i].grows < growCount
          /\ regions[i].ref + regions[i].len <= lastGrow.used

\* C8: after Clear, CallAll invokes the records pushed since the Clear and no
\* record pushed before it; pushing 1, 2, 3 into a zero-capacity queue, CallAll,
\* Clear, pushing 4, CallAll: the second CallAll invokes exactly 4.
C8_NoResidueAfterClear ==
    (fresh /\ clears >= 1) =>
        /\ \A i \in 1..Len(lastCall) : lastCall[i].id \in LiveIds
        /\ \A id \in LiveIds : \E i \in 1..Len(lastCall) : lastCall[i].id = id
        /\ (initCap = 0 /\ nextId = 4 /\ Ids(live) = << 4 >>) => Ids(lastCall) = << 4 >>

C8_Witness ==
    /\ fresh
    /\ initCap = 0
    /\ clears = 1
    /\ opCount = 5
    /\ nextId = 4
    /\ Ids(live) = << 4 >>
    /\ Ids(lastCall) = << 4 >>

RECURSIVE WalkFrom(_, _, _)
\* the records met when starting at pos and advancing todo times by the Size
\* each record declares
WalkFrom(s, pos, todo) ==
    IF todo = 0 THEN << >>
    ELSE IF ~IsRecordAt(s, pos) THEN << [pos |-> pos, Size |-> 0, id |-> 0 - 1] >>
    ELSE << [pos |-> pos, Size |-> s.Data[pos + SizeOffset + 1].Size,
             id |-> s.Data[pos + PayloadOffset + 1].id] >>
         \o WalkFrom(s, pos + s.Data[pos + SizeOffset + 1].Size, todo - 1)

Walk(s) == WalkFrom(s, s.First, s.NumElements)

RECURSIVE ReservedAfter(_, _)
\* the bytes reserved, among the first n regions, while record id was the last
ReservedAfter(id, n) ==
    IF n = 0 THEN 0
    ELSE ReservedAfter(id, n - 1)
         + (IF regions[n].after = id THEN regions[n].reserved ELSE 0)

\* C22: with NumElements > 0, the walk from First, NumElements times along the
\* declared Sizes, meets exactly the pushed records in push order, its last
\* record is Last and it ends at UsedCapacity; each record's Size is its own
\* size plus the regions reserved after it, which lie inside it: no gap, no
\* overlap.
C22_PackedRecords ==
    (fault = "none" /\ q.NumElements > 0) =>
        /\ Len(Walk(q)) = q.NumElements
        /\ Len(live) = q.NumElements
        /\ Ids(Walk(q)) = Ids(live)
        /\ Walk(q)[1].pos = q.First
        /\ Walk(q)[q.NumElements].pos = q.Last
        /\ Walk(q)[q.NumElements].pos + Walk(q)[q.NumElements].Size = q.UsedCapacity
        /\ \A i \in 1..Len(live) :
              /\ Walk(q)[i].Size = live[i].size + ReservedAfter(live[i].id, Len(regions))
              /\ \A r \in 1..Len(regions) :
                    regions[r].after = live[i].id =>
                        /\ Walk(q)[i].pos + live[i].size <= regions[r].ref
                        /\ regions[r].ref + regions[r].reserved
                              <= Walk(q)[i].pos + Walk(q)[i].Size
        /\ \A r, t \in 1..Len(regions) :
              r < t => regions[r].ref + regions[r].reserved <= regions[t].ref

C22_Witness ==
    /\ fault = "none"
    /\ q.NumElements = 2
    /\ growCount >= 2
    /\ Len(regions) = 3
    /\ regions[1].after \notin LiveIds
    /\ regions[2].after = live[1].id
    /\ regions[3].after = live[2].id
    /\ regions[3].reserved = 16
    /\ q.First = 8

\* the step is a reservation (OobPushEmpty, also inside OobPush)
ReserveStep == Len(regions') = Len(regions) + 1

\* C23: a reservation adds its aligned byte count to the Size of the last
\* pushed record and changes no other Size; a push changes the Size of no
\* record pushed before it. Every record but the last keeps its Size.
C23_OnlyLastSizeGrows ==
    [][(fault' = "none" /\ q'.NumElements >= q.NumElements) =>
          \A i \in 1..q.NumElements :
              /\ Walk(q')[i].pos = Walk(q)[i].pos
              /\ Walk(q')[i].id = Walk(q)[i].id
              /\ Walk(q')[i].Size =
                    Walk(q)[i].Size
                    + (IF ReserveStep /\ i = q.NumElements
                       THEN regions'[Len(regions')].reserved ELSE 0)]_vars

C23_Witness ==
    /\ fault = "none"
    /\ q.NumElements = 3
    /\ Len(regions) = 2
    /\ regions[1].after = live[1].id
    /\ regions[2].after = live[3].id
    /\ regions[2].reserved = 8
    /\ Walk(q)[1].Size = live[1].size + regions[1].reserved
    /\ Walk(q)[2].Size = live[2].size
    /\ Walk(q)[3].Size = live[3].size + 8

\* the step ran Grow
GrowStep == growCount' = growCount + 1

\* the bytes the growing call asked for
Requested ==
    IF ReserveStep THEN regions'[Len(regions')].reserved
    ELSE live'[Len(live')].size

\* c is the smallest power of two that is at least n (n, c unsigned 32-bit)
SmallestPow2AtLeast(c, n) ==
    /\ \E e \in 0..31 : c = Pow2(e)
    /\ U32Le(n, c)
    /\ \A e \in 0..31 : U32Le(n, Pow2(e)) => U32Le(c, Pow2(e))

\* C24: whenever Grow runs for a request of r bytes with u bytes used, the
\* new Capacity is the smallest power of two that is at least u + r, the
\* first u bytes of the new buffer are those of the old one, and
\* UsedCapacity, NumElements, First and Last are as before.
C24_GrowRoundsUp ==
    [][(GrowStep /\ fault' = "none") =>
          /\ ~U32Lt(U32Add(q.UsedCapacity, Requested), q.UsedCapacity)
          /\ SmallestPow2AtLeast(q'.Capacity, U32Add(q.UsedCapacity, Requested))
          /\ Grow(q, Requested).Capacity = q'.Capacity
          /\ Len(Grow(q, Requested).Data) = q'.Capacity
          /\ \A i \in 1..q.UsedCapacity :
                Grow(q, Requested).Data[i] = q.Data[i]
          /\ Grow(q, Requested).UsedCapacity = q.UsedCapacity
          /\ Grow(q, Requested).NumElements = q.NumElements
          /\ Grow(q, Requested).First = q.First
          /\ Grow(q, Requested).Last = q.Last]_vars

RECURSIVE SumSizes(_, _)
SumSizes(log, n) == IF n = 0 THEN 0 ELSE SumSizes(log, n - 1) + log[n].size

RECURSIVE SumReserved(_, _)
SumReserved(rs, n) == IF n = 0 THEN 0 ELSE SumReserved(rs, n - 1) + rs[n].reserved

\* the bytes pushed and reserved since construction or the last Clear
TotalSinceClear(log, rs) == SumSizes(log, Len(log)) + SumReserved(rs, Len(rs))

\* the step is a Push or a reservation
AppendStep == Len(live') = Len(live) + 1 \/ ReserveStep

\* C25: Push and OobPushEmpty reallocate exactly when Capacity - UsedCapacity
\* is smaller than the bytes needed; Clear keeps Capacity and the buffer, so
\* as long as the bytes pushed and reserved since a Clear stay within
\* Capacity no call reallocates.
C25_ReallocOnlyWhenShort ==
    [][/\ AppendStep =>
             /\ GrowStep <=> (q.Capacity - q.UsedCapacity < Requested)
             /\ ~GrowStep => (q'.Capacity = q.Capacity /\ Len(q'.Data) = Len(q.Data))
             /\ TotalSinceClear(live', regions') <= q.Capacity => ~GrowStep
       /\ clears' = clears + 1 =>
             /\ q'.Capacity = q.Capacity
             /\ q'.Data = q.Data
             /\ TotalSinceClear(live', regions') = 0]_vars

C25_Witness ==
    /\ initCap = 0
    /\ clears = 1
    /\ growCount = 2
    /\ q.Capacity = 32
    /\ q.UsedCapacity = 32
    /\ Len(live) = 1
    /\ Len(regions) = 1
    /\ regions[1].grows = 2
    /\ TotalSinceClear(live, regions) = 32
    /\ lastGrow = NoGrow

\* C26: OobPushEmpty<uint8_t>(count), for every count that fits in 32 bits,
\* advances UsedCapacity by the smallest multiple of sizeof(size_t) that is at
\* least count, and the Ref it returns is the UsedCapacity before the call.
C26_ReserveAdvancesAligned ==
    [][(ReserveStep /\ fault' = "none") =>
          /\ regions'[Len(regions')].ref = q.UsedCapacity
          /\ U32Sub(q'.UsedCapacity, q.UsedCapacity) % SizeofSizeT = 0
          /\ U32Le(regions'[Len(regions')].len,
                   U32Sub(q'.UsedCapacity, q.UsedCapacity))
          /\ U32Lt(U32Sub(U32Sub(q'.UsedCapacity, q.UsedCapacity),
                          regions'[Len(regions')].len), SizeofSizeT)]_vars

\* C15: after any sequence of Push, OobPushEmpty, OobPush, CallAll and Clear,
\* UsedCapacity is at most Capacity.
C15_UsedWithinCapacity == fault = "none" => U32Le(q.UsedCapacity, q.Capacity)

\* C16: no operation makes Capacity smaller: each step of Push, OobPushEmpty,
\* OobPush, CallAll and Clear leaves Capacity as it was or larger.
C16_CapacityNeverShrinks ==
    [][fault' = "none" => U32Le(q.Capacity, q'.Capacity)]_vars

\* ------------------------------------------------------------------------
\* Properties of the frame pipeline (Spec)
\* ------------------------------------------------------------------------
\* main has returned from its frame work of frame f
RenderDone(f) == tickDone["Main"] > f

\* C2: what Render executes in frame N+1 is exactly what was pushed in frame N,
\* per group in push order; nothing pushed in frame N is executed in frame N.
C2_NextFrameExecutesPushed ==
    /\ \A d \in Domains : executedIn[0][d] = << >>
    /\ \A f \in 0..(MaxFrames - 1) : \A d \in Domains :
          /\ executedIn[f + 1][d] \in {<< >>, pushedIn[f][d]}
          /\ RenderDone(f + 1) => executedIn[f + 1][d] = pushedIn[f][d]
    /\ \A f \in Frames : \A d, e \in Domains :
          \A i \in 1..Len(executedIn[f][d]) : \A j \in 1..Len(pushedIn[f][e]) :
              executedIn[f][d][i] # pushedIn[f][e][j]

C2_Witness ==
    /\ RenderDone(2)
    /\ Len(executedIn[2]["UI"]) = 1 + Len(TextLines)
    /\ Len(executedIn[2]["World"]) >= 1
    /\ executedIn[2]["UI"] = pushedIn[1]["UI"]
    /\ Len(pushedIn[2]["UI"]) >= 1

\* C3: no party starts its tick for frame N before every party has returned
\* from its tick for frame N-1 and main has done the boundary step of frame N-1.
C3_TicksInLockstep ==
    \A t \in Threads :
        /\ tickStarted[t] <= frameNum + 1
        /\ \A u \in Threads : tickStarted[t] <= tickDone[u] + 1

C3_Witness ==
    /\ tickStarted["GameLogic"] = 3
    /\ tickStarted["Physics"] = 2
    /\ tickDone["Physics"] = 2
    /\ frameNum = 2

\* C4: while a worker is inside Update and main is inside its frame work, the
\* QueueSet the worker pushes into and the one main drains are different.
C4_NoSharedInstance ==
    ((\E w \in Workers : pc[w] \in UpdatePcs) /\ pc["Main"] \in RenderPcs) =>
        /\ LogicSet # RenderSet
        /\ pushTargets \cap renderTargets = {}

C4_Witness ==
    /\ pc["GameLogic"] = "update_text"
    /\ pc["Main"] = "render_ui_clear"
    /\ pushTargets = {1}
    /\ renderTargets = {0}
    /\ executedIn[1]["UI"] # << >>

\* where a worker is between its arrival at FrameEndBarrier and its release
\* from the next FrameStartBarrier (or has left the loop after that arrival)
BetweenEndAndStart == {"wait_end", "check", "arrive_start", "wait_start", "on_end", "done"}

\* C5: the role pointers are exchanged only in main's boundary step, while no
\* worker is inside Update and every worker has arrived at FrameEndBarrier.
C5_SwapOnlyAtBoundary ==
    [][(LogicSet' # LogicSet \/ RenderSet' # RenderSet) =>
          /\ pc["Main"] = "boundary"
          /\ pc["Main"] \notin RenderPcs
          /\ \A w \in Workers :
                /\ pc[w] \notin UpdatePcs
                /\ pc[w] \in BetweenEndAndStart
                /\ tickStarted[w] = frameNum + 1
                /\ tickDone[w] = frameNum + 1]_vars

C5_Witness ==
    /\ frameNum = 2
    /\ LogicSet = 0
    /\ RenderSet = 1
    /\ pc["Main"] = "check"
    /\ pc["GameLogic"] = "wait_start"
    /\ pc["Physics"] = "wait_end"

\* C10: when ShouldFinish is set during frame N, every party completes its tick
\* for frame N and passes FrameEnd of frame N; a worker leaves its loop only at
\* the loop check that follows, starts no tick for frame N+1 and runs OnEnd once.
C10_CooperativeTermination ==
    /\ ShouldFinish => \A t \in Threads : tickStarted[t] <= finishFrame + 1
    /\ \A w \in Workers :
          /\ pc[w] \in {"on_end", "done"} =>
                /\ ShouldFinish
                /\ tickStarted[w] = finishFrame + 1
                /\ tickDone[w] = finishFrame + 1
                /\ endPassed[w] = finishFrame + 1
          /\ onEndCount[w] = IF pc[w] = "done" THEN 1 ELSE 0
    /\ pc["Main"] \in {"close_window", "join_gamelogic", "join_physics", "exited"} =>
          /\ ShouldFinish
          /\ tickDone["Main"] = finishFrame + 1
          /\ endPassed["Main"] = finishFrame + 1

C10_Witness ==
    /\ finishFrame = 1
    /\ pc["Main"] = "exited"
    /\ \A w \in Workers : pc[w] = "done" /\ onEndCount[w] = 1 /\ tickDone[w] = 2


\* ------------------------------------------------------------------------
\* Properties of RenderQueue::DrawText (SpecText)
\* ------------------------------------------------------------------------
\* the bytes of a text of len characters and its terminator
ExpectedText(len) == Text(len) \o << ByteCell(0) >>

\* C9: for every text drawn, the bytes read through the stored Ref when the
\* command is replayed are the text followed by one zero byte.
C9_TextRoundTrip ==
    (fresh /\ fault = "none") =>
        /\ Len(lastCall) = Len(live)
        /\ \A i \in 1..Len(live) :
              live[i].op = "text" => lastCall[i].got = ExpectedText(live[i].len)

\* the same for texts of at most 254 characters: these round-trip
C9_ShortTextRoundTrip ==
    (fresh /\ fault = "none" /\ \A i \in 1..Len(live) : live[i].len <= 254) =>
        /\ Len(lastCall) = Len(live)
        /\ \A i \in 1..Len(live) :
              live[i].op = "text" => lastCall[i].got = ExpectedText(live[i].len)


\* ------------------------------------------------------------------------
\* Termination of the frame pipeline (FairSpec)
\* ------------------------------------------------------------------------
\* every worker has returned from its thread function and main has joined both
AllExited == pc["Main"] = "exited" /\ \A w \in Workers : pc[w] = "done"

\* C11: under fair scheduling, once ShouldFinish is set every worker and main
\* eventually leave their loops and both joins return; nobody stays blocked at
\* FrameStartBarrier or FrameEndBarrier.
C11_EventuallyAllJoined == ShouldFinish ~> AllExited

C11_Witness ==
    /\ AllExited
    /\ finishFrame = 2
    /\ FrameStartBarrier.phase = 3
    /\ FrameEndBarrier.phase = 3

\* a thread has left its frame loop
LeftLoop(t) ==
    pc[t] \in {"on_end", "done", "close_window", "join_gamelogic", "join_physics", "exited"}

\* the QueueSet main drained in the frame in which ShouldFinish was set: the
\* render set of that frame, which the boundary step of that frame makes the
\* logic set
DrainedAtFinish == IF frameNum = finishFrame THEN RenderSet ELSE LogicSet

IsEmptyQueue(s) ==
    /\ s.NumElements = 0
    /\ s.UsedCapacity = 0
    /\ s.First = InvalidValue
    /\ s.Last = InvalidValue

\* C12: when ShouldFinish is set during frame N, the replay and the clear of
\* every group of the render set of frame N are complete before any thread
\* leaves its loop.
C12_DrainBeforeExit ==
    (\E t \in Threads : LeftLoop(t)) =>
        /\ finishFrame >= 0
        /\ RenderDone(finishFrame)
        /\ \A d \in Domains :
              /\ executedIn[finishFrame][d] =
                    (IF finishFrame = 0 THEN << >> ELSE pushedIn[finishFrame - 1][d])
              /\ IsEmptyQueue(QSet[DrainedAtFinish][d])

C12_Witness ==
    /\ finishFrame = 1
    /\ frameNum = 1
    /\ pc["Physics"] = "on_end"
    /\ pc["Main"] = "wait_end"
    /\ Len(executedIn[1]["UI"]) = 1 + Len(TextLines)
    /\ IsEmptyQueue(QSet[RenderSet]["UI"])
    /\ ~IsEmptyQueue(QSet[LogicSet]["UI"])


\* main is between two frames (or past its loop): frameNum frames are complete
BetweenFrames ==
    pc["Main"] \in {"check", "close_window", "join_gamelogic", "join_physics", "exited"}

\* C14: over M complete frames each worker's Update is called exactly M times,
\* each call between the worker's release from FrameStartBarrier and its arrival
\* at FrameEndBarrier of the same frame, never while an earlier call is running;
\* each barrier completes exactly M phases.
C14_OneUpdatePerFrame ==
    /\ \A w \in Workers :
          /\ tickStarted[w] \in {tickDone[w], tickDone[w] + 1}
          /\ (pc[w] \in UpdatePcs) = (tickStarted[w] = tickDone[w] + 1)
          /\ pc[w] \in UpdatePcs =>
                /\ FrameStartBarrier.phase = tickStarted[w]
                /\ FrameEndBarrier.phase = tickDone[w]
                /\ endPassed[w] = tickDone[w]
    /\ BetweenFrames =>
          /\ FrameStartBarrier.phase = frameNum
          /\ FrameEndBarrier.phase = frameNum
          /\ \A w \in Workers : tickStarted[w] = frameNum /\ tickDone[w] = frameNum

C14_Witness ==
    /\ pc["Main"] = "check"
    /\ ~ShouldFinish
    /\ frameNum = 2
    /\ FrameStartBarrier.phase = 2
    /\ FrameEndBarrier.phase = 2
    /\ \A w \in Workers : tickDone[w] = 2 /\ pc[w] = "arrive_start"

\* ------------------------------------------------------------------------
\* Party count of the barriers (SpecParties)
\* ------------------------------------------------------------------------
\* the party count given to FrameThreadControl
PartyCount == FrameStartBarrier.expected

\* no party has come out of a rendezvous and no frame has completed
NobodyReleased ==
    /\ frameNum = 0
    /\ \A t \in Threads :
          /\ tickStarted[t] = 0
          /\ pc[t] \in {"idle", "on_start", "start_gamelogic", "start_physics",
                         "check", "arrive_start", "wait_start"}

HeldIds(s) == [i \in 1..Len(CallAll(s)) |-> CallAll(s)[i].id]

\* what the render set of the current frame received in the frame before
PushedBefore(d) == IF frameNum = 0 THEN << >> ELSE pushedIn[frameNum - 1][d]

\* C18: Render replays World, clears World, replays UI, clears UI, in this
\* order: World is replayed and empty before any UI command runs, and when
\* Render has returned every group of the render set is empty (count 0,
\* used 0, first and last unset).
C18_RenderWorldThenUI ==
    /\ pc["Main"] = "render_world_clear" =>
           /\ executedIn[frameNum]["World"] = PushedBefore("World")
           /\ executedIn[frameNum]["UI"] = << >>
           /\ HeldIds(QSet[RenderSet]["World"]) = PushedBefore("World")
           /\ HeldIds(QSet[RenderSet]["UI"]) = PushedBefore("UI")
    /\ pc["Main"] = "render_ui_call" =>
           /\ executedIn[frameNum]["World"] = PushedBefore("World")
           /\ IsEmptyQueue(QSet[RenderSet]["World"])
           /\ executedIn[frameNum]["UI"] = << >>
           /\ HeldIds(QSet[RenderSet]["UI"]) = PushedBefore("UI")
    /\ pc["Main"] = "render_ui_clear" =>
           /\ IsEmptyQueue(QSet[RenderSet]["World"])
           /\ executedIn[frameNum]["UI"] = PushedBefore("UI")
           /\ HeldIds(QSet[RenderSet]["UI"]) = PushedBefore("UI")
    /\ pc["Main"] \in {"window_close", "arrive_end", "wait_end", "boundary"} =>
           \A d \in Domains :
               /\ executedIn[frameNum][d] = PushedBefore(d)
               /\ IsEmptyQueue(QSet[RenderSet][d])

C18_Witness ==
    /\ pc["Main"] = "window_close"
    /\ frameNum = 2
    /\ Len(executedIn[2]["World"]) >= 1
    /\ Len(executedIn[2]["UI"]) = 1 + Len(TextLines)
    /\ \A d \in Domains : IsEmptyQueue(QSet[RenderSet][d])
    /\ QSet[RenderSet]["UI"].Capacity > 0

\* ------------------------------------------------------------------------
\* Properties of OobAt (SpecRef)
\* ------------------------------------------------------------------------
\* C19: with assertions compiled in, OobAt(ref) returns a pointer exactly when
\* ref.Pos is below UsedCapacity; for every other Ref (the unset sentinel, any
\* Ref on an empty queue) the assertion fails and nothing is returned.
C19_OobAtBoundsChecked ==
    (lastAt.called /\ ~NDEBUG) =>
        /\ lastAt.returned <=> (0 <= lastAt.ref /\ lastAt.ref < lastAt.used)
        /\ lastAt.returned <=> fault = "none"
        /\ ~lastAt.returned <=> fault = "assert"
        /\ lastAt.ref = InvalidValue => ~lastAt.returned
        /\ lastAt.used = 0 => ~lastAt.returned

C19_Witness ==
    /\ lastAt.called
    /\ ~NDEBUG
    /\ lastAt.ref = InvalidValue
    /\ lastAt.used = 24
    /\ fault = "assert"
    /\ clears = 0
    /\ Len(regions) = 1

\* C20: with assertions compiled in, OobAt of a Ref that was issued before
\* the most recent Clear (and not issued again since) fails the assertion,
\* whatever the queue received after that Clear.
C20_ExpiredRefCaught ==
    (lastAt.called /\ ~NDEBUG /\ lastAt.expired) => fault = "assert"

DrainPcs == {"render_world_call", "render_world_clear", "render_ui_call",
             "render_ui_clear"}

DrainStep == pc["Main"] \in DrainPcs /\ pc'["Main"] # pc["Main"]

SwapStep == LogicSet' # LogicSet \/ RenderSet' # RenderSet

C27_RolesDistinct ==
    [][/\ {LogicSet, RenderSet} = {0, 1}
       /\ {LogicSet', RenderSet'} = {0, 1}
       /\ SwapStep =>
             /\ LogicSet' = RenderSet
             /\ RenderSet' = LogicSet
             /\ QSet' = QSet
       /\ \A st \in {0, 1} : \A d \in Domains :
             QSet'[st][d].NumElements > QSet[st][d].NumElements =>
                 /\ st = LogicSet
                 /\ st # RenderSet
                 /\ pushTargets' = {LogicSet}]_vars

C27_Witness ==
    /\ frameNum = 1
    /\ LogicSet = 1
    /\ RenderSet = 0
    /\ pc["GameLogic"] = "update_keys"
    /\ pushTargets = {1}
    /\ QSet[1]["UI"].NumElements = 1 + Len(TextLines)
    /\ QSet[0]["UI"].NumElements = 1 + Len(TextLines)
    /\ pc["Main"] = "wait_start"

\* main executes the boundary step
BoundaryStep == pc["Main"] = "boundary" /\ pc'["Main"] # "boundary"

\* a party is inside its tick
InTick(t) == IF t = "Main" THEN pc[t] \in RenderPcs ELSE pc[t] \in UpdatePcs

\* C28: DeltaSeconds and FrameStartTime are written by main's boundary step
\* and by nothing else; while it writes, every worker is between its arrival
\* at FrameEndBarrier and its release from FrameStartBarrier, and no party is
\* inside a tick; so the values a tick reads do not change during the tick.
C28_FrameStateWrittenAtBoundary ==
    [][/\ (DeltaSeconds' # DeltaSeconds \/ FrameStartTime' # FrameStartTime)
             => BoundaryStep
       /\ BoundaryStep =>
             /\ FrameStartTime' # FrameStartTime
             /\ DeltaSeconds' = FrameStartTime' - FrameStartTime
             /\ \A t \in Threads : ~InTick(t)
             /\ \A w \in Workers :
                   /\ pc[w] \in BetweenEndAndStart
                   /\ tickDone[w] = frameNum + 1
                   /\ tickStarted[w] = frameNum + 1
       /\ (\E t \in Threads : InTick(t)) =>
             /\ DeltaSeconds' = DeltaSeconds
             /\ FrameStartTime' = FrameStartTime]_vars

C28_Witness ==
    /\ pc["Main"] = "check"
    /\ frameNum = 2
    /\ FrameStartTime = ClockStart + 2
    /\ DeltaSeconds = 1
    /\ pc["GameLogic"] = "wait_start"
    /\ pc["Physics"] = "check"
    /\ tickDone["Physics"] = 2

\* the party whose tick has not returned, and the tick it is in
Stalled(t) == pc[t] = "stalled"

\* C29: once the tick of one party for a frame does not return, the
\* FrameEndBarrier phase of that frame is never completed, so no party is
\* released from it and no party starts a tick for the next frame; every
\* other party finishes its own tick of the frame, arrives at FrameEndBarrier
\* and stays blocked there for good (a stalled party stays stalled, so from
\* some point on the others are always found waiting).
C29_StalledTickBlocksAll ==
    /\ [](\A t \in Threads : Stalled(t) =>
            /\ FrameEndBarrier.phase < tickStarted[t]
            /\ \A u \in Threads :
                  /\ endPassed[u] < tickStarted[t]
                  /\ tickStarted[u] <= tickStarted[t]
                  /\ frameNum < tickStarted[t])
    /\ [][\A t \in Threads : Stalled(t) => Stalled(t)']_vars
    /\ <>[](\A t \in Threads : Stalled(t) =>
              \A u \in Threads \ {t} :
                 /\ pc[u] = "wait_end"
                 /\ tickDone[u] = tickStarted[t]
                 /\ ~Released(FrameEndBarrier, token[u]))

C29_Witness ==
    /\ Stalled("Physics")
    /\ tickStarted["Physics"] = 2
    /\ pc["Main"] = "wait_end"
    /\ pc["GameLogic"] = "wait_end"
    /\ FrameEndBarrier.arrived = 2
    /\ ~ShouldFinish

\* thread t evaluates its loop condition / leaves its loop in this step
CheckStep(t) == pc[t] = "check" /\ pc'[t] # "check"
LeavesLoop(t) == CheckStep(t) /\ pc'[t] \in {"on_end", "close_window"}

\* C30: ShouldFinish is written by main only, after its release from
\* FrameStartBarrier and before its arrival at FrameEndBarrier of the same
\* frame, while no thread is at a loop check and none has passed the
\* FrameEndBarrier of that frame; a loop check that follows frame k reads
\* "set" exactly when the flag was set during frame k, whichever thread makes
\* it, so all threads leave their loops after the same frame.
C30_FlagStableAtLoopCheck ==
    [][/\ ShouldFinish' # ShouldFinish =>
             /\ ShouldFinish'
             /\ pc["Main"] = "window_close"
             /\ pc'["Main"] = "arrive_end"
             /\ \A w \in Workers : pc'[w] = pc[w]
             /\ tickStarted["Main"] = frameNum + 1
             /\ endPassed["Main"] = frameNum
             /\ FrameStartBarrier.phase = frameNum + 1
             /\ FrameEndBarrier.phase = frameNum
             /\ \A t \in Threads :
                   /\ pc[t] \notin {"idle", "on_start", "check", "arrive_start"}
                   /\ endPassed[t] = frameNum
       /\ \A t \in Threads : CheckStep(t) =>
             /\ ShouldFinish' = ShouldFinish
             /\ LeavesLoop(t) <=> ShouldFinish
             /\ ShouldFinish <=> (endPassed[t] > 0 /\ finishFrame = endPassed[t] - 1)
       /\ \A t, u \in Threads :
             (LeftLoop(t)' /\ LeftLoop(u)') =>
                 /\ endPassed'[t] = endPassed'[u]
                 /\ tickDone'[t] = tickDone'[u]]_vars

C30_Witness ==
    /\ ShouldFinish
    /\ finishFrame = 1
    /\ pc["Physics"] = "on_end"
    /\ pc["GameLogic"] = "check"
    /\ pc["Main"] = "check"
    /\ \A t \in Threads : endPassed[t] = 2

\* ------------------------------------------------------------------------
\* What becomes of the records of the last frame (FairSpec)
\* ------------------------------------------------------------------------
\* how many times the command with this id has been executed so far
Occurs(seq, id) == Cardinality({i \in 1..Len(seq) : seq[i] = id})

RECURSIVE ExecUpTo(_, _)
ExecUpTo(id, f) ==
    IF f < 0 THEN 0
    ELSE ExecUpTo(id, f - 1) + Occurs(executedIn[f]["World"], id)
                             + Occurs(executedIn[f]["UI"], id)

ExecCount(id) == ExecUpTo(id, MaxFrames)

\* the ids of the commands the workers pushed in frame f
PushedIds(f) ==
    UNION {{pushedIn[f][d][i] : i \in 1..Len(pushedIn[f][d])} : d \in Domains}

\* C31 (as stated): no pushed record is executed twice, and from some point on
\* every record a worker has pushed has been executed exactly once, the
\* records of the frame in which ShouldFinish was set included.
C31_EveryRecordExecutedOnce ==
    /\ [](\A f \in Frames : \A id \in PushedIds(f) : ExecCount(id) <= 1)
    /\ <>[](\A f \in Frames : \A id \in PushedIds(f) : ExecCount(id) = 1)

\* C31 (amended): no pushed record is executed twice; a record pushed in a
\* frame before the one in which ShouldFinish is set is executed exactly once,
\* by the Render of the next frame; a record pushed in the frame in which
\* ShouldFinish is set is never executed.
C31_ExecutedOnceUnlessLastFrame ==
    /\ [](\A f \in Frames : \A id \in PushedIds(f) : ExecCount(id) <= 1)
    /\ [](\A f \in Frames : \A id \in PushedIds(f) :
             (finishFrame >= 0 /\ f >= finishFrame) => ExecCount(id) = 0)
    /\ <>[](/\ finishFrame >= 0
            /\ PushedIds(finishFrame) # {}
            /\ \A f \in Frames : f < finishFrame =>
                  /\ \A id \in PushedIds(f) : ExecCount(id) = 1
                  /\ \A d \in Domains : executedIn[f + 1][d] = pushedIn[f][d])

C31_Witness ==
    /\ AllExited
    /\ finishFrame = 1
    /\ PushedIds(0) # {}
    /\ \A id \in PushedIds(0) : ExecCount(id) = 1
    /\ Len(pushedIn[1]["UI"]) = 1 + Len(TextLines)
    /\ \A id \in PushedIds(1) : ExecCount(id) = 0
    /\ ~IsEmptyQueue(QSet[LogicSet]["UI"]) \/ ~IsEmptyQueue(QSet[RenderSet]["UI"])

\* ------------------------------------------------------------------------
\* Where DrawText puts its text (SpecText)
\* ------------------------------------------------------------------------
\* the bytes PushString reserves for a text of len characters
TextReserved(len) == AlignedNeeded(PushStringCount(Text(len)), 1)

\* the bytes reserved on behalf of the i-th command drawn since the last Clear
ReservedFor(i) ==
    IF i <= Len(live) /\ live[i].op = "text" THEN TextReserved(live[i].len) ELSE 0

\* the region of a text command lies in the record pushed before it, or in
\* front of First when there is none
TextRegionInPreviousRecord ==
    (fault = "none" /\ q.NumElements > 0) =>
        /\ Len(live) = q.NumElements
        /\ q.First = ReservedFor(1)
        /\ Ids(Walk(q)) = Ids(live)
        /\ \A i \in 1..Len(live) :
              Walk(q)[i].Size = live[i].size + ReservedFor(i + 1)

\* C32: the text region of DrawText is reserved before its command is pushed,
\* so it is counted in the Size of the record pushed before (in no record when
\* there is none); for every sequence of DrawText and DrawRectangle, CallAll
\* executes each command once in push order and every text command reads the
\* text it was drawn with.
C32_TextBeforeCommand ==
    /\ TextRegionInPreviousRecord
    /\ (fresh /\ fault = "none") =>
          /\ Ids(lastCall) = Ids(live)
          /\ \A i \in 1..Len(live) :
                live[i].op = "text" => lastCall[i].got = ExpectedText(live[i].len)

\* the same for texts of at most 254 characters
C32_ShortTextBeforeCommand ==
    (\A i \in 1..Len(live) : live[i].len <= 254) => C32_TextBeforeCommand

\* ------------------------------------------------------------------------
\* Reservations made while the queue holds no record (SpecQueue)
\* ------------------------------------------------------------------------
\* the regions reserved since the last Clear while Last was unset
LeadingRegions == {i \in 1..Len(regions) : regions[i].after \notin LiveIds}

\* OobPushEmpty is called on a queue that holds no record
ReserveOnEmptyStep == ReserveStep /\ ~IsSet(q.Last)

\* C33: OobPushEmpty on a queue with Last unset changes no record Size: it
\* moves UsedCapacity only, First and Last stay unset and the bytes in use
\* stay as they are; the bytes it reserves end at or before the offset First
\* takes afterwards; CallAll then starts at First and executes exactly the
\* pushed records, in order, reading no header inside the reserved bytes.
C33_ReserveOnEmptyQueue ==
    /\ [][(ReserveOnEmptyStep /\ fault' = "none") =>
            /\ q.NumElements = 0 /\ ~IsSet(q.First)
            /\ q'.NumElements = 0 /\ ~IsSet(q'.First) /\ ~IsSet(q'.Last)
            /\ q'.UsedCapacity = q.UsedCapacity + regions'[Len(regions')].reserved
            /\ regions'[Len(regions')].ref = q.UsedCapacity
            /\ ReadCells(q', 0, q.UsedCapacity) = ReadCells(q, 0, q.UsedCapacity)
            /\ ~NeedsGrow(q, regions'[Len(regions')].reserved) =>
                  q'.Capacity = q.Capacity]_vars
    /\ [](fault = "none" =>
            \A i \in LeadingRegions :
               /\ IsSet(q.First) => regions[i].ref + regions[i].reserved <= q.First
               /\ \A p \in HeaderOffsets(q) :
                     /\ p >= regions[i].ref + regions[i].reserved
                     /\ RegionBytes(regions[i]) \cap HeaderBytes(p) = {}
               /\ Ids(CallAll(q)) = Ids(live)
               /\ fresh => Ids(lastCall) = Ids(live))

C33_Witness ==
    /\ fault = "none"
    /\ fresh
    /\ LeadingRegions = {1, 2}
    /\ regions[2].reserved = 8
    /\ q.First = 16
    /\ Len(live) = 2
    /\ Ids(lastCall) = Ids(live)
    /\ clears >= 1

\* ------------------------------------------------------------------------
\* The Ref of a reservation, a reservation of no bytes included (SpecQueue)
\* ------------------------------------------------------------------------
\* the Ref returned by the reservation made in this step
ReturnedRef == regions'[Len(regions')].ref

\* the Ref passes the assertion of OobAt right after the call that returned it
RefValidAfterCall ==
    [][(ReserveStep /\ fault' = "none") => OobAtOk(q', ReturnedRef)]_vars

\* no Ref issued since the last Clear names a byte of a record header
RefOutsideHeaders ==
    fault = "none" =>
        \A i \in 1..Len(regions) : \A p \in HeaderOffsets(q) :
            regions[i].ref \notin HeaderBytes(p)

\* C34: for every count, 0 included, the Ref that OobPushEmpty returns passes
\* the bounds check of OobAt right after the call, and the byte it designates
\* belongs to no header of a record pushed afterwards.
C34_EveryRefValid == RefValidAfterCall /\ []RefOutsideHeaders

\* the same for reservations of at least one byte
C34_NonEmptyRefValid ==
    /\ [][(ReserveStep /\ fault' = "none" /\ regions'[Len(regions')].len >= 1)
            => OobAtOk(q', ReturnedRef)]_vars
    /\ [](fault = "none" =>
            \A i \in 1..Len(regions) : \A p \in HeaderOffsets(q) :
                regions[i].len >= 1 => regions[i].ref \notin HeaderBytes(p))

\* ------------------------------------------------------------------------
\* Grow with sums near the top of SizeType (SpecBig)
\* ------------------------------------------------------------------------
\* u + r fits in 32 bits and c, read as unsigned, is at least u + r
AtLeastSum(c, u, r) ==
    /\ ~U32Lt(U32Add(u, r), u)
    /\ U32Le(U32Add(u, r), c)

\* C35: whenever Grow(r) runs with u bytes used, the Capacity it leaves is at
\* least u + r, for every u and r of 32 bits.
C35_GrowCoversRequest ==
    [][GrowStep =>
          /\ AtLeastSum(Grow(q, Requested).Capacity, q.UsedCapacity, Requested)
          /\ fault' = "none" => q'.Capacity = Grow(q, Requested).Capacity]_vars

\* ------------------------------------------------------------------------
\* Pushes of two workers into one queue (SpecRace)
\* ------------------------------------------------------------------------
\* every Push has returned
NoPushUnderWay == \A w \in Workers : pusher[w].pc = "idle"

\* the record of a completed Push is in the buffer as it was constructed
StoredIntact(r) ==
    \E pos \in 0..(Len(q.Data) - 1) :
        /\ IsRecordAt(q, pos)
        /\ q.Data[pos + PayloadOffset + 1].id = r.id
        /\ q.Data[pos + SizeOffset + 1].Size = r.size
        /\ pos + r.size <= q.UsedCapacity

\* every record pushed is in the buffer and the replay executes each once
AllStoredAndReplayedOnce ==
    /\ fault = "none"
    /\ q.NumElements = Len(live)
    /\ \A i \in 1..Len(live) : StoredIntact(live[i])
    /\ Len(CallAll(q)) = Len(live)
    /\ \A i \in 1..Len(live) : Occurs(Ids(CallAll(q)), live[i].id) = 1
    /\ fresh => lastCall = CallAll(q)

\* C36 (as stated): whenever the pushes of the workers into one queue have
\* returned, overlapping or not, every pushed record is stored intact and
\* the replay executes each exactly once.
C36_ConcurrentPushesKept == NoPushUnderWay => AllStoredAndReplayedOnce

\* C36 (amended): this holds when no Push into the queue began while another
\* Push into it was under way.
C36_SerialPushesKept ==
    (NoPushUnderWay /\ ~overlapped) =>
        /\ AllStoredAndReplayedOnce
        /\ Ids(CallAll(q)) = Ids(live)

C36_Witness ==
    /\ ~overlapped
    /\ fresh
    /\ fault = "none"
    /\ Len(live) = 3
    /\ growCount >= 2
    /\ Ids(lastCall) = << 1, 2, 3 >>
    /\ q.UsedCapacity = 3 * SizeofRectCmd

\* ------------------------------------------------------------------------
\* One RenderQueue at a time (SpecInstance)
\* ------------------------------------------------------------------------
\* the RenderQueue objects that were alive when the last constructor ran
AliveAtConstruction == alive \ {lastOp.obj}

\* C37: with assertions compiled in, the constructor of RenderQueue fails its
\* assertion exactly when another RenderQueue is alive at that moment; a
\* construction after the previous instance was destroyed succeeds.
C37_AssertsIffAnotherAlive ==
    (~NDEBUG /\ lastOp.op = "construct") =>
        (fault = "assert" <=> AliveAtConstruction # {})

\* the direction that holds: a construction while another instance is alive
\* fails the assertion
C37_AssertsWhenAnotherAlive ==
    (~NDEBUG /\ lastOp.op = "construct" /\ AliveAtConstruction # {}) =>
        fault = "assert"

\* ------------------------------------------------------------------------
\* Unsynchronised variables accessed during the tick phase (Spec)
\* ------------------------------------------------------------------------
\* the plain (non-atomic) variables more than one thread accesses
SharedPlain == {"renderAvgWorkTimeMs", "GameLogic.WorkCalc", "Physics.WorkCalc"}

\* what the next step of thread t writes: main assigns renderAvgWorkTimeMs at
\* the end of its frame work; a worker calls WorkCalc.Tick when Update returns
NextWrites(t) ==
    IF t = "Main" /\ pc[t] = "window_close" THEN {"renderAvgWorkTimeMs"}
    ELSE IF t = "Physics" /\ pc[t] = "update_sleep" THEN {"Physics.WorkCalc"}
    ELSE IF t = "GameLogic" /\ pc[t] = "update_keys" THEN {"GameLogic.WorkCalc"}
    ELSE {}

\* what the next step of thread t reads: the texts of lines 1, 2 and 3 of
\* GameLogicThread::Update print GetAvgWorkTimeMs(),
\* physicsTh.GetAvgWorkTimeMs() and renderAvgWorkTimeMs
NextReads(t) ==
    IF t = "GameLogic" /\ pc[t] = "update_text" /\ textIdx = 1 THEN {"GameLogic.WorkCalc"}
    ELSE IF t = "GameLogic" /\ pc[t] = "update_text" /\ textIdx = 2 THEN {"Physics.WorkCalc"}
    ELSE IF t = "GameLogic" /\ pc[t] = "update_text" /\ textIdx = 3
         THEN {"renderAvgWorkTimeMs"}
    ELSE {}

\* two threads are about to access variable v, one of them writing, with
\* nothing that orders the two accesses
Conflict(v) ==
    \E t, u \in Threads :
        /\ t # u
        /\ v \in NextWrites(t)
        /\ v \in NextReads(u) \cup NextWrites(u)

\* C38: no variable is written by one thread while another thread reads or
\* writes it: renderAvgWorkTimeMs and the WorkCalc of each FrameThread are
\* never read by GameLogicThread::Update when their writer can write them.
C38_NoConflictingAccess == \A v \in SharedPlain : ~Conflict(v)

\* what holds: a thread's own WorkCalc is accessed by that thread alone
C38_OwnWorkCalcNotShared == ~Conflict("GameLogic.WorkCalc")

\* ------------------------------------------------------------------------
\* Properties of FPSCalculator (SpecFps)
\* ------------------------------------------------------------------------
RECURSIVE SumTickList(_)
\* the sum of the entries 0..i of TickList
SumTickList(i) == IF i < 0 THEN 0 ELSE SumTickList(i - 1) + TickList[i]

\* the slots that hold one of the last min(n, MaxSamples) deltas
FilledSlots == {(Len(deltas) - k) % MaxSamples : k \in 1..Min(Len(deltas), MaxSamples)}

\* C39: after n calls of Tick, TickIndex is n mod MaxSamples, TickSum is the
\* sum of the entries of TickList, the k-th most recent delta (k up to
\* min(n, MaxSamples)), in microseconds, is in slot (n - k) mod MaxSamples,
\* and every other slot is zero.
C39_RingOfLastSamples ==
    /\ NumTicks = Len(deltas)
    /\ TickIndex = NumTicks % MaxSamples
    /\ TickSum = SumTickList(MaxSamples - 1)
    /\ \A k \in 1..Min(NumTicks, MaxSamples) :
          TickList[(NumTicks - k) % MaxSamples] = deltas[NumTicks - k + 1]
    /\ \A i \in 0..(MaxSamples - 1) : i \notin FilledSlots => TickList[i] = 0

C39_Witness ==
    /\ NumTicks = MaxSamples + 2
    /\ TickIndex = 2
    /\ deltas[1] = 5000
    /\ deltas[NumTicks] = 0 - 1
    /\ deltas[NumTicks - 1] = 2
    /\ deltas[NumTicks - 2] = 5000
    /\ TickList[1] = 0 - 1
    /\ TickList[0] = 2
    /\ TickSum = 5001

====
